---- MODULE Spec2Model ----
(***************************************************************************)
(* Model of PingMint's batch transfer tool (src/batch_transfer.py) and of   *)
(* its minter (src/mint_netpackets.py).                                    *)
(*                                                                         *)
(* Spec        : the per-job transfer pipelines of class BatchTransfer,    *)
(*               rapid_sequential_transfer and transfer_to_multiple,       *)
(*               running against a ledger that accepts, mines and rejects  *)
(*               transactions by account nonce.                            *)
(* SpecResolve : the ownership resolver get_my_nfts(method="auto") and its *)
(*               indexed lookup _get_nfts_from_api.                        *)
(* SpecScan    : get_my_nfts with every method, its event-log              *)
(*               reconstruction _get_nfts_from_events and its linear       *)
(*               probing _get_nfts_by_scanning, for a process without an   *)
(*               API key.                                                  *)
(* SpecGate    : approve_bulk_transfer, bulk_transfer_external and         *)
(*               batch_transfer_single_tx, with the pipeline they call.    *)
(* SpecPlan    : main with input mode "1": the resolved holdings are       *)
(*               distributed over the destinations and a transfer method   *)
(*               is called.                                                *)
(* SpecCtor    : BatchTransfer.__init__ and NetPacketsMinter.__init__      *)
(*               (src/mint_netpackets.py).                                 *)
(* SpecMint    : NetPacketsMinter.run with approve_usdc, mint_nft and      *)
(*               transfer_nft, against a ledger that mines the submitted   *)
(*               transactions by account nonce.                            *)
(***************************************************************************)
EXTENDS Integers, Sequences, FiniteSets, TLC

VARIABLES
    \* ---- BatchTransfer pipeline: program state
    method,          \* "none" | "rapid" | "multi": the method that was called
    pc,              \* position in the method
    token_ids,       \* the batch (after the truncation of transfer_to_multiple)
    addresses,       \* destinations of transfer_to_multiple (after truncation)
    idx,             \* index of the running for loop (0-based, as enumerate)
    base_nonce,      \* value read by get_transaction_count
    transactions,    \* rapid: list of built (token_id, tx)
    sent_hashes,     \* list of (token_id, tx_hash) successfully submitted
    successful,      \* tally of success receipts
    failed,          \* rapid: tally of failures
    total_gas_used,  \* rapid: aggregate of gasUsed
    total_cost,      \* rapid: aggregate of gasUsed * effectiveGasPrice
    result,          \* "none" | "True" | "False" | "raised"
    \* ---- the ledger (external collaborator)
    ledgerNonce,     \* transaction count of the account on the ledger
    chain,           \* tx hash -> [status, nonce] of the transaction
    externalTxs,     \* transactions of the account accepted from elsewhere
    \* ---- history of the run (observations, never read by the program)
    nonceReads,      \* number of get_transaction_count calls
    jobs,            \* per job index: what happened to it
    submitLog,       \* nonces in the order send_raw_transaction accepted them
    staleBy,         \* ledgerNonce - base_nonce when the first job is submitted
    \* ---- Ownership resolver: get_my_nfts / _get_nfts_from_api
    rpc,             \* position in get_my_nfts
    alchemyKeyLen,   \* length of env ALCHEMY_API_KEY (0: unset)
    rpcUrlHasV2,     \* "/v2/" occurs in env BASE_RPC_URL
    rpcUrlKeyLen,    \* length of the part of BASE_RPC_URL after "/v2/"
    apiOutcome,      \* what the HTTP request did
    apiStatus,       \* response.status_code (0: no response)
    apiBody,         \* tokenId strings of data["ownedNfts"]
    apiReturn,       \* value returned by _get_nfts_from_api
    eventsCalled,    \* number of calls of _get_nfts_from_events by get_my_nfts
    nfts,            \* value returned by get_my_nfts
    \* ---- get_my_nfts: _get_nfts_from_events and _get_nfts_by_scanning
    resolveMethod,   \* argument method of get_my_nfts
    blocks_back,     \* argument blocks_back
    current_block,   \* value read from w3.eth.block_number
    chunk_start,     \* loop variable of the chunk loop
    error_count,     \* rolling error counter of the chunk loop
    received_nfts,   \* set of tokens seen in transfers to the account
    sent_nfts,       \* set of tokens seen in transfers from the account
    token_id,        \* loop variable of linear probing
    last_valid,      \* last identifier whose ownerOf call returned
    my_nfts,         \* list built by linear probing
    \* ---- history of the resolution (never read by the program)
    probeFrom,       \* call site _get_nfts_by_scanning was called from
    interruptedAt,   \* call a KeyboardInterrupt arrived in ("none": no interrupt)
    winReceived,     \* tokens transferred to the account in the chunks visited
    winSent,         \* tokens transferred from the account in the chunks visited
    chunkLog,        \* outcome of every chunk visited, in order
    probeLog,        \* answer of ownerOf for the identifiers 1, 2, ... probed
    queryLog,        \* per chunk visited: its range and its two get_logs calls
    ownedNow,        \* tokens the account owns after the chunks visited
    historyOk,       \* the logs of the chunks visited are those of a ledger
                     \* on which the account owned nothing before from_block
    \* ---- approve_bulk_transfer, bulk_transfer_external, batch_transfer_single_tx
    caller,          \* "none" | "approve" | "bulk" | "single": what main called
    gpc,             \* position in the called method
    gate_token_ids,  \* argument token_ids of the called method
    gate_to,         \* argument to_address of the called method
    approved,        \* isApprovedForAll(account, bulk transfer contract)
    gateTxs,         \* approval and batch transactions on the ledger
    \* ---- history of the call (never read by the program)
    approveLog,      \* one record per call of approve_bulk_transfer
    pipelineCalls,   \* arguments of every call of rapid_sequential_transfer
    singleAttempts,  \* number of batchTransferFrom transactions attempted
    singleError,     \* message of the exception batch_transfer_single_tx caught
    \* ---- history of rapid_sequential_transfer (never read by the program)
    tallyReported,   \* the RAPID TRANSFER SUMMARY block was printed
    \* ---- main: the transfer menu and its distribution planner
    mainPc,          \* "idle" | "menu" | "plan" | "called" | "returned" | "exit1"
    main_my_nfts,    \* my_nfts = batch.get_my_nfts()
    main_addresses,  \* addresses entered for mode "2"
    mode,            \* "1": all to one address, "2": to several addresses
    dist_mode,       \* "1" | "2" | "3": distribution mode
    main_token_ids,  \* token_ids = my_nfts[:count]
    per_address,     \* NFTs per address (distribution mode "2")
    distribution,    \* amounts per address (distribution mode "3")
    all_token_ids,   \* the tokens of the plan, in order
    all_addresses,   \* the address of every token of the plan
    \* ---- history of main (never read by the program)
    resolvedBy,      \* strategy of get_my_nfts that produced my_nfts
    ownerOfChecked,  \* tokens whose owner was read with ownerOf
    requested,       \* the integers read from input for the plan, as parsed
    assigned,        \* holdings the plan gives to each address, in their order
    \* ---- construction: BatchTransfer.__init__ and NetPacketsMinter.__init__
    ctorClass,       \* "none" | "BatchTransfer" | "NetPacketsMinter"
    ctorPc,          \* position in __init__
    private_key,     \* env PRIVATE_KEY: "unset" | "empty" | "hex" | "0xhex"
    urlIdx,          \* BatchTransfer: index of the rpc_urls entry under test
    rpc_url,         \* BatchTransfer: index of the chosen entry (0: none yet)
    ctorResult,      \* "none" | "constructed" | the exception raised
    \* ---- history of the construction (never read by the program)
    networkCalls,    \* requests sent to a ledger endpoint so far
    \* ---- NetPacketsMinter.run: program state
    runPc,           \* position in run and in the method it has called
    mint_count,      \* self.mint_count
    transfer_enabled,   \* self.transfer_enabled
    transfer_addresses, \* self.transfer_addresses
    usdc_approved,   \* what approve_usdc returned: "none" | "True" | "False"
    mint_i,          \* i of the minting loop
    successful_mints,
    failed_mints,
    minted_token_ids,   \* the results run has appended
    transfer_idx,    \* idx of the transfer loop, from 0
    successful_transfers,
    failed_transfers,
    \* ---- NetPacketsMinter.run: the ledger and history
    minedCount,      \* eth.get_transaction_count(address): transactions mined
    minterTxs,       \* the transactions submitted, in order
    allowanceCovers, \* "none" | "yes" | "no": what allowance() compared to
    receiptIds,      \* token ids read from the Transfer log of a mint receipt
    transferCalls    \* the token_id of every call of transfer_nft

batchVars == <<method, pc, token_ids, addresses, idx, base_nonce, transactions,
               sent_hashes, successful, failed, total_gas_used, total_cost,
               result, ledgerNonce, chain, externalTxs, nonceReads, jobs,
               submitLog, staleBy>>

scanVars == <<resolveMethod, blocks_back, current_block, chunk_start,
              error_count, received_nfts, sent_nfts, token_id, last_valid,
              my_nfts, probeFrom, interruptedAt, winReceived, winSent,
              chunkLog, probeLog, queryLog, ownedNow, historyOk>>

resolveVars == <<rpc, alchemyKeyLen, rpcUrlHasV2, rpcUrlKeyLen, apiOutcome,
                 apiStatus, apiBody, apiReturn, eventsCalled, nfts, scanVars>>

gateVars == <<caller, gpc, gate_token_ids, gate_to, approved, gateTxs,
              approveLog, pipelineCalls, singleAttempts, singleError>>

reportVars == <<tallyReported>>

mainVars == <<mainPc, main_my_nfts, main_addresses, mode, dist_mode,
              per_address, distribution, all_token_ids, all_addresses,
              resolvedBy, ownerOfChecked, main_token_ids, requested,
              assigned>>

ctorVars == <<ctorClass, ctorPc, private_key, urlIdx, rpc_url, ctorResult,
              networkCalls>>

minterVars == <<runPc, mint_count, transfer_enabled, transfer_addresses,
                usdc_approved, mint_i, successful_mints, failed_mints,
                minted_token_ids, transfer_idx, successful_transfers,
                failed_transfers, minedCount, minterTxs,
                allowanceCovers, receiptIds, transferCalls>>

vars == <<batchVars, resolveVars, gateVars, reportVars, mainVars, ctorVars,
          minterVars>>

----------------------------------------------------------------------------
(* Bounds of the model *)

\* largest batch (number of tokens, number of addresses) a call is given
MaxBatch == 3

\* transactions of the same account accepted from elsewhere during a run
MaxExternal == 2

\* account nonces the ledger can hold when the run starts
StartNonces == {0, 42}

\* (gasUsed, effectiveGasPrice) pairs a receipt can carry
ReceiptFees == { [gasUsed |-> 2, effectiveGasPrice |-> 5],
                 [gasUsed |-> 3, effectiveGasPrice |-> 7] }

JobIds == 1 .. MaxBatch

\* the token passed at position i of a batch
TokenAt(i) == 2 * i + 1

\* the address passed at position i (transfer_to_multiple)
AddressAt(i) == i

NoJob == [build |-> "none", nonce |-> -1, submit |-> "none", waits |-> 0,
          outcome |-> "none", tally |-> "none", gasUsed |-> 0,
          effectiveGasPrice |-> 0]

Min(a, b) == IF a < b THEN a ELSE b

----------------------------------------------------------------------------
(* The ledger *)

\* send_raw_transaction rejects a nonce below the account's transaction count
NonceTooLow(n) == n < ledgerNonce

\* a pending transaction whose nonce is the account's next one is mined, with
\* status success or reverted; this is what wait_for_transaction_receipt sees
Mine(h, status) ==
    /\ pc \in {"send", "wait"}
    /\ chain[h].status = "pending"
    /\ chain[h].nonce = ledgerNonce
    /\ chain' = [chain EXCEPT ![h].status = status]
    /\ ledgerNonce' = ledgerNonce + 1
    /\ UNCHANGED <<method, pc, token_ids, addresses, idx, base_nonce,
                   transactions, sent_hashes, successful, failed,
                   total_gas_used, total_cost, result, externalTxs,
                   nonceReads, jobs, submitLog, staleBy>>
    /\ UNCHANGED <<resolveVars, gateVars, reportVars, mainVars, ctorVars, minterVars>>

\* another transaction of the same account is accepted by the ledger
ExternalTx ==
    /\ pc \in {"build", "send", "wait"}
    /\ externalTxs < MaxExternal
    /\ externalTxs' = externalTxs + 1
    /\ ledgerNonce' = ledgerNonce + 1
    /\ UNCHANGED <<method, pc, token_ids, addresses, idx, base_nonce,
                   transactions, sent_hashes, successful, failed,
                   total_gas_used, total_cost, result, chain,
                   nonceReads, jobs, submitLog, staleBy>>
    /\ UNCHANGED <<resolveVars, gateVars, reportVars, mainVars, ctorVars, minterVars>>

----------------------------------------------------------------------------
(* Helpers shared by the two pipelines *)

\* sum of f[x] over the x of S
RECURSIVE SumFn(_, _)
SumFn(f, S) ==
    IF S = {} THEN 0
    ELSE LET x == CHOOSE y \in S : TRUE IN f[x] + SumFn(f, S \ {x})

\* variant: every job gets the base nonce
JobNonceNoIndex(i) == base_nonce

\* variant: the nonce is taken from the ledger again for every job
JobNonceFresh(i) == ledgerNonce + i

\* nonce of the job at loop index i: 'nonce': base_nonce + idx
JobNonce(i) == base_nonce + i

\* variant: the submit loop walks the list from its end
NextToSendReversed == transactions[Len(transactions) - idx]

\* the element the submit loop of rapid_sequential_transfer takes at index idx
NextToSend == transactions[idx + 1]

\* variant: the tally is compared with the number of submitted jobs
AllSentSucceeded == successful = Len(sent_hashes)

\* return successful == len(token_ids)
AllSucceeded == successful = Len(token_ids)

BoolStr(b) == IF b THEN "True" ELSE "False"

\* how a failed send_raw_transaction is remembered in the history
SubmitFailure(n) == IF NonceTooLow(n) THEN "rejected" ELSE "failed"

----------------------------------------------------------------------------
(* Entry: the caller invokes one of the two pipelines *)

\* batch.rapid_sequential_transfer(token_ids, to_address)
CallRapid(n) ==
    /\ pc = "idle"
    /\ method' = "rapid"
    /\ token_ids' = [i \in 1 .. n |-> TokenAt(i)]
    /\ pc' = "nonce"
    /\ UNCHANGED <<addresses, idx, base_nonce, transactions, sent_hashes,
                   successful, failed, total_gas_used, total_cost, result,
                   ledgerNonce, chain, externalTxs, nonceReads, jobs,
                   submitLog, staleBy>>
    /\ UNCHANGED <<resolveVars, gateVars, reportVars, mainVars, ctorVars, minterVars>>

\* batch.transfer_to_multiple(token_ids, addresses): the lists are cut to the
\* shorter of the two lengths
CallMulti(n, m) ==
    /\ pc = "idle"
    /\ method' = "multi"
    /\ LET min_count == Min(n, m) IN
          /\ token_ids' = [i \in 1 .. (IF n # m THEN min_count ELSE n)
                              |-> TokenAt(i)]
          /\ addresses' = [i \in 1 .. (IF n # m THEN min_count ELSE m)
                              |-> AddressAt(i)]
    /\ pc' = "nonce"
    /\ UNCHANGED <<idx, base_nonce, transactions, sent_hashes,
                   successful, failed, total_gas_used, total_cost, result,
                   ledgerNonce, chain, externalTxs, nonceReads, jobs,
                   submitLog, staleBy>>
    /\ UNCHANGED <<resolveVars, gateVars, reportVars, mainVars, ctorVars, minterVars>>

\* base_nonce = self.w3.eth.get_transaction_count(self.address)
ReadBaseNonce ==
    /\ pc = "nonce"
    /\ base_nonce' = ledgerNonce
    /\ nonceReads' = nonceReads + 1
    /\ idx' = 0
    /\ transactions' = <<>>
    /\ sent_hashes' = <<>>
    /\ pc' = IF method = "rapid" THEN "build" ELSE "send"
    /\ UNCHANGED <<method, token_ids, addresses, successful, failed,
                   total_gas_used, total_cost, result, ledgerNonce, chain,
                   externalTxs, jobs, submitLog, staleBy>>
    /\ UNCHANGED <<resolveVars, gateVars, reportVars, mainVars, ctorVars, minterVars>>

\* the same call raising: it is outside every try of the method, the exception
\* leaves it (the first call made by bulk_transfer_external is inside that
\* method's try: see BulkRetryRapid)
ReadBaseNonceRaises ==
    /\ pc = "nonce"
    /\ ~(caller = "bulk" /\ Len(pipelineCalls) = 1)
    /\ nonceReads' = nonceReads + 1
    /\ result' = "raised"
    /\ pc' = "done"
    /\ UNCHANGED <<method, token_ids, addresses, idx, base_nonce,
                   transactions, sent_hashes, successful, failed,
                   total_gas_used, total_cost, ledgerNonce, chain,
                   externalTxs, jobs, submitLog, staleBy>>
    /\ UNCHANGED <<resolveVars, gateVars, reportVars, mainVars, ctorVars, minterVars>>

----------------------------------------------------------------------------
(* rapid_sequential_transfer *)

\* build loop, build_transaction succeeds
RapidBuildOk ==
    /\ method = "rapid" /\ pc = "build"
    /\ idx < Len(token_ids)
    /\ transactions' = Append(transactions,
                              [token_id |-> token_ids[idx + 1],
                               nonce |-> JobNonce(idx),
                               job |-> idx + 1])
    /\ jobs' = [jobs EXCEPT ![idx + 1].build = "ok",
                            ![idx + 1].nonce = JobNonce(idx)]
    /\ idx' = idx + 1
    /\ UNCHANGED <<method, pc, token_ids, addresses, base_nonce, sent_hashes,
                   successful, failed, total_gas_used, total_cost, result,
                   ledgerNonce, chain, externalTxs, nonceReads, submitLog,
                   staleBy>>
    /\ UNCHANGED <<resolveVars, gateVars, reportVars, mainVars, ctorVars, minterVars>>

\* build loop, build_transaction raises: return False
RapidBuildFail ==
    /\ method = "rapid" /\ pc = "build"
    /\ idx < Len(token_ids)
    /\ jobs' = [jobs EXCEPT ![idx + 1].build = "failed"]
    /\ result' = "False"
    /\ pc' = "done"
    /\ UNCHANGED <<method, token_ids, addresses, idx, base_nonce,
                   transactions, sent_hashes, successful, failed,
                   total_gas_used, total_cost, ledgerNonce, chain,
                   externalTxs, nonceReads, submitLog, staleBy>>
    /\ UNCHANGED <<resolveVars, gateVars, reportVars, mainVars, ctorVars, minterVars>>

\* build loop, a KeyboardInterrupt arrives in build_transaction: except
\* Exception does not catch it, it leaves the method with its locals and
\* reaches main, which prints "Interrupted by user" and exits
RapidBuildInterrupt ==
    /\ method = "rapid" /\ pc = "build"
    /\ idx < Len(token_ids)
    /\ transactions' = <<>>
    /\ result' = "interrupted"
    /\ pc' = "done"
    /\ UNCHANGED <<method, token_ids, addresses, idx, base_nonce,
                   sent_hashes, successful, failed, total_gas_used,
                   total_cost, ledgerNonce, chain, externalTxs, nonceReads,
                   jobs, submitLog, staleBy>>
    /\ UNCHANGED <<resolveVars, gateVars, reportVars, mainVars, ctorVars, minterVars>>

\* the build loop is over: sent_hashes = [], total_gas_used = 0, total_cost = 0
RapidStartSend ==
    /\ method = "rapid" /\ pc = "build"
    /\ idx = Len(token_ids)
    /\ sent_hashes' = <<>>
    /\ total_gas_used' = 0
    /\ total_cost' = 0
    /\ idx' = 0
    /\ staleBy' = ledgerNonce - base_nonce
    /\ pc' = "send"
    /\ UNCHANGED <<method, token_ids, addresses, base_nonce, transactions,
                   successful, failed, result, ledgerNonce, chain,
                   externalTxs, nonceReads, jobs, submitLog>>
    /\ UNCHANGED <<resolveVars, gateVars, reportVars, mainVars, ctorVars, minterVars>>

\* submit loop, sign_transaction and send_raw_transaction succeed
RapidSendOk ==
    /\ method = "rapid" /\ pc = "send"
    /\ idx < Len(transactions)
    /\ LET tx == NextToSend IN
          /\ ~NonceTooLow(tx.nonce)
          /\ chain' = [chain EXCEPT ![tx.job] =
                                  [status |-> "pending", nonce |-> tx.nonce]]
          /\ sent_hashes' = Append(sent_hashes,
                                   [token_id |-> tx.token_id,
                                    tx_hash |-> tx.job])
          /\ jobs' = [jobs EXCEPT ![tx.job].submit = "ok"]
          /\ submitLog' = Append(submitLog, tx.nonce)
    /\ idx' = idx + 1
    /\ UNCHANGED <<method, pc, token_ids, addresses, base_nonce, transactions,
                   successful, failed, total_gas_used, total_cost, result,
                   ledgerNonce, externalTxs, nonceReads, staleBy>>
    /\ UNCHANGED <<resolveVars, gateVars, reportVars, mainVars, ctorVars, minterVars>>

\* variant: a failed submission ends the submit loop
RapidSendFailBreak ==
    /\ method = "rapid" /\ pc = "send"
    /\ idx < Len(transactions)
    /\ LET tx == NextToSend IN
          jobs' = [jobs EXCEPT ![tx.job].submit = SubmitFailure(tx.nonce),
                               ![tx.job].outcome = "SubmitFailed"]
    /\ idx' = Len(transactions)
    /\ UNCHANGED <<method, pc, token_ids, addresses, base_nonce, transactions,
                   sent_hashes, successful, failed, total_gas_used,
                   total_cost, result, ledgerNonce, chain, externalTxs,
                   nonceReads, submitLog, staleBy>>
    /\ UNCHANGED <<resolveVars, gateVars, reportVars, mainVars, ctorVars, minterVars>>

\* submit loop, signing or broadcast raises: the failure is printed and the
\* loop goes on
RapidSendFail ==
    /\ method = "rapid" /\ pc = "send"
    /\ idx < Len(transactions)
    /\ LET tx == NextToSend IN
          jobs' = [jobs EXCEPT ![tx.job].submit = SubmitFailure(tx.nonce),
                               ![tx.job].outcome = "SubmitFailed"]
    /\ idx' = idx + 1
    /\ UNCHANGED <<method, pc, token_ids, addresses, base_nonce, transactions,
                   sent_hashes, successful, failed, total_gas_used,
                   total_cost, result, ledgerNonce, chain, externalTxs,
                   nonceReads, submitLog, staleBy>>
    /\ UNCHANGED <<resolveVars, gateVars, reportVars, mainVars, ctorVars, minterVars>>

\* the submit loop is over: successful = 0, failed = 0
RapidStartWait ==
    /\ method = "rapid" /\ pc = "send"
    /\ idx = Len(transactions)
    /\ successful' = 0
    /\ failed' = 0
    /\ idx' = 0
    /\ pc' = "wait"
    /\ UNCHANGED <<method, token_ids, addresses, base_nonce, transactions,
                   sent_hashes, total_gas_used, total_cost, result,
                   ledgerNonce, chain, externalTxs, nonceReads, jobs,
                   submitLog, staleBy>>
    /\ UNCHANGED <<resolveVars, gateVars, reportVars, mainVars, ctorVars, minterVars>>

\* confirm loop, receipt['status'] == 1
RapidWaitConfirmed(fee) ==
    /\ method = "rapid" /\ pc = "wait"
    /\ idx < Len(sent_hashes)
    /\ LET h == sent_hashes[idx + 1].tx_hash
           cost == fee.gasUsed * fee.effectiveGasPrice IN
          /\ chain[h].status = "success"
          /\ total_gas_used' = total_gas_used + fee.gasUsed
          /\ total_cost' = total_cost + cost
          /\ jobs' = [jobs EXCEPT ![h].waits = @ + 1,
                                  ![h].outcome = "Confirmed",
                                  ![h].tally = "successful",
                                  ![h].gasUsed = fee.gasUsed,
                                  ![h].effectiveGasPrice = fee.effectiveGasPrice]
    /\ successful' = successful + 1
    /\ idx' = idx + 1
    /\ UNCHANGED <<method, pc, token_ids, addresses, base_nonce, transactions,
                   sent_hashes, failed, result, ledgerNonce, chain,
                   externalTxs, nonceReads, submitLog, staleBy>>
    /\ UNCHANGED <<resolveVars, gateVars, reportVars, mainVars, ctorVars, minterVars>>

\* variant: the gas of a reverted receipt is added to the totals
RapidWaitRevertedCharged(fee) ==
    /\ method = "rapid" /\ pc = "wait"
    /\ idx < Len(sent_hashes)
    /\ LET h == sent_hashes[idx + 1].tx_hash IN
          /\ chain[h].status = "reverted"
          /\ jobs' = [jobs EXCEPT ![h].waits = @ + 1,
                                  ![h].outcome = "Reverted",
                                  ![h].tally = "failed"]
    /\ total_gas_used' = total_gas_used + fee.gasUsed
    /\ total_cost' = total_cost + fee.gasUsed * fee.effectiveGasPrice
    /\ failed' = failed + 1
    /\ idx' = idx + 1
    /\ UNCHANGED <<method, pc, token_ids, addresses, base_nonce, transactions,
                   sent_hashes, successful, result, ledgerNonce, chain,
                   externalTxs, nonceReads, submitLog, staleBy>>
    /\ UNCHANGED <<resolveVars, gateVars, reportVars, mainVars, ctorVars, minterVars>>

\* confirm loop, a receipt with another status: failed += 1
RapidWaitReverted(fee) ==
    /\ method = "rapid" /\ pc = "wait"
    /\ idx < Len(sent_hashes)
    /\ LET h == sent_hashes[idx + 1].tx_hash IN
          /\ chain[h].status = "reverted"
          /\ jobs' = [jobs EXCEPT ![h].waits = @ + 1,
                                  ![h].outcome = "Reverted",
                                  ![h].tally = "failed"]
    /\ failed' = failed + 1
    /\ idx' = idx + 1
    /\ UNCHANGED <<method, pc, token_ids, addresses, base_nonce, transactions,
                   sent_hashes, successful, total_gas_used, total_cost,
                   result, ledgerNonce, chain, externalTxs, nonceReads,
                   submitLog, staleBy>>
    /\ UNCHANGED <<resolveVars, gateVars, reportVars, mainVars, ctorVars, minterVars>>

\* variant: a timeout ends the confirm loop
RapidWaitTimeoutBreak ==
    /\ method = "rapid" /\ pc = "wait"
    /\ idx < Len(sent_hashes)
    /\ LET h == sent_hashes[idx + 1].tx_hash IN
          jobs' = [jobs EXCEPT ![h].waits = @ + 1,
                               ![h].outcome = "TimedOut",
                               ![h].tally = "failed"]
    /\ failed' = failed + 1
    /\ idx' = Len(sent_hashes)
    /\ UNCHANGED <<method, pc, token_ids, addresses, base_nonce, transactions,
                   sent_hashes, successful, total_gas_used, total_cost,
                   result, ledgerNonce, chain, externalTxs, nonceReads,
                   submitLog, staleBy>>
    /\ UNCHANGED <<resolveVars, gateVars, reportVars, mainVars, ctorVars, minterVars>>

\* variant: a timeout is counted in no tally
RapidWaitTimeoutUncounted ==
    /\ method = "rapid" /\ pc = "wait"
    /\ idx < Len(sent_hashes)
    /\ LET h == sent_hashes[idx + 1].tx_hash IN
          jobs' = [jobs EXCEPT ![h].waits = @ + 1,
                               ![h].outcome = "TimedOut"]
    /\ idx' = idx + 1
    /\ UNCHANGED <<method, pc, token_ids, addresses, base_nonce, transactions,
                   sent_hashes, successful, failed, total_gas_used,
                   total_cost, result, ledgerNonce, chain, externalTxs,
                   nonceReads, submitLog, staleBy>>
    /\ UNCHANGED <<resolveVars, gateVars, reportVars, mainVars, ctorVars, minterVars>>

\* confirm loop, wait_for_transaction_receipt raises (timeout after 120 s, or
\* any other error): failed += 1
RapidWaitTimeout ==
    /\ method = "rapid" /\ pc = "wait"
    /\ idx < Len(sent_hashes)
    /\ LET h == sent_hashes[idx + 1].tx_hash IN
          jobs' = [jobs EXCEPT ![h].waits = @ + 1,
                               ![h].outcome = "TimedOut",
                               ![h].tally = "failed"]
    /\ failed' = failed + 1
    /\ idx' = idx + 1
    /\ UNCHANGED <<method, pc, token_ids, addresses, base_nonce, transactions,
                   sent_hashes, successful, total_gas_used, total_cost,
                   result, ledgerNonce, chain, externalTxs, nonceReads,
                   submitLog, staleBy>>
    /\ UNCHANGED <<resolveVars, gateVars, reportVars, mainVars, ctorVars, minterVars>>

\* the summary is printed; return successful == len(token_ids)
RapidSummary ==
    /\ method = "rapid" /\ pc = "wait"
    /\ idx = Len(sent_hashes)
    /\ result' = BoolStr(AllSucceeded)
    /\ tallyReported' = TRUE
    /\ pc' = "done"
    /\ UNCHANGED <<method, token_ids, addresses, idx, base_nonce,
                   transactions, sent_hashes, successful, failed,
                   total_gas_used, total_cost, ledgerNonce, chain,
                   externalTxs, nonceReads, jobs, submitLog, staleBy>>
    /\ UNCHANGED <<resolveVars, gateVars, mainVars, ctorVars, minterVars>>

----------------------------------------------------------------------------
(* transfer_to_multiple: one loop builds, signs and sends each job *)

\* build_transaction raises: the failure is printed and the loop goes on
MultiBuildFail ==
    /\ method = "multi" /\ pc = "send"
    /\ idx < Len(token_ids)
    /\ jobs' = [jobs EXCEPT ![idx + 1].build = "failed"]
    /\ staleBy' = IF idx = 0 THEN ledgerNonce - base_nonce ELSE staleBy
    /\ idx' = idx + 1
    /\ UNCHANGED <<method, pc, token_ids, addresses, base_nonce, transactions,
                   sent_hashes, successful, failed, total_gas_used,
                   total_cost, result, ledgerNonce, chain, externalTxs,
                   nonceReads, submitLog>>
    /\ UNCHANGED <<resolveVars, gateVars, reportVars, mainVars, ctorVars, minterVars>>

\* the job is built, sign_transaction or send_raw_transaction raises: the
\* failure is printed and the loop goes on
MultiSendFail ==
    /\ method = "multi" /\ pc = "send"
    /\ idx < Len(token_ids)
    /\ jobs' = [jobs EXCEPT ![idx + 1].build = "ok",
                            ![idx + 1].nonce = JobNonce(idx),
                            ![idx + 1].submit = SubmitFailure(JobNonce(idx)),
                            ![idx + 1].outcome = "SubmitFailed"]
    /\ staleBy' = IF idx = 0 THEN ledgerNonce - base_nonce ELSE staleBy
    /\ idx' = idx + 1
    /\ UNCHANGED <<method, pc, token_ids, addresses, base_nonce, transactions,
                   sent_hashes, successful, failed, total_gas_used,
                   total_cost, result, ledgerNonce, chain, externalTxs,
                   nonceReads, submitLog>>
    /\ UNCHANGED <<resolveVars, gateVars, reportVars, mainVars, ctorVars, minterVars>>

\* the job is built, signed and accepted by the ledger
MultiSendOk ==
    /\ method = "multi" /\ pc = "send"
    /\ idx < Len(token_ids)
    /\ ~NonceTooLow(JobNonce(idx))
    /\ jobs' = [jobs EXCEPT ![idx + 1].build = "ok",
                            ![idx + 1].nonce = JobNonce(idx),
                            ![idx + 1].submit = "ok"]
    /\ chain' = [chain EXCEPT ![idx + 1] =
                            [status |-> "pending", nonce |-> JobNonce(idx)]]
    /\ sent_hashes' = Append(sent_hashes,
                             [token_id |-> token_ids[idx + 1],
                              to_address |-> addresses[idx + 1],
                              tx_hash |-> idx + 1])
    /\ submitLog' = Append(submitLog, JobNonce(idx))
    /\ staleBy' = IF idx = 0 THEN ledgerNonce - base_nonce ELSE staleBy
    /\ idx' = idx + 1
    /\ UNCHANGED <<method, pc, token_ids, addresses, base_nonce, transactions,
                   successful, failed, total_gas_used, total_cost, result,
                   ledgerNonce, externalTxs, nonceReads>>
    /\ UNCHANGED <<resolveVars, gateVars, reportVars, mainVars, ctorVars, minterVars>>

\* the loop is over: successful = 0
MultiStartWait ==
    /\ method = "multi" /\ pc = "send"
    /\ idx = Len(token_ids)
    /\ successful' = 0
    /\ idx' = 0
    /\ pc' = "wait"
    /\ UNCHANGED <<method, token_ids, addresses, base_nonce, transactions,
                   sent_hashes, failed, total_gas_used, total_cost, result,
                   ledgerNonce, chain, externalTxs, nonceReads, jobs,
                   submitLog, staleBy>>
    /\ UNCHANGED <<resolveVars, gateVars, reportVars, mainVars, ctorVars, minterVars>>

\* confirm loop, receipt['status'] == 1: successful += 1
MultiWaitConfirmed ==
    /\ method = "multi" /\ pc = "wait"
    /\ idx < Len(sent_hashes)
    /\ LET h == sent_hashes[idx + 1].tx_hash IN
          /\ chain[h].status = "success"
          /\ jobs' = [jobs EXCEPT ![h].waits = @ + 1,
                                  ![h].outcome = "Confirmed",
                                  ![h].tally = "successful"]
    /\ successful' = successful + 1
    /\ idx' = idx + 1
    /\ UNCHANGED <<method, pc, token_ids, addresses, base_nonce, transactions,
                   sent_hashes, failed, total_gas_used, total_cost, result,
                   ledgerNonce, chain, externalTxs, nonceReads, submitLog,
                   staleBy>>
    /\ UNCHANGED <<resolveVars, gateVars, reportVars, mainVars, ctorVars, minterVars>>

\* confirm loop, a receipt with another status: nothing is counted or printed
MultiWaitReverted ==
    /\ method = "multi" /\ pc = "wait"
    /\ idx < Len(sent_hashes)
    /\ LET h == sent_hashes[idx + 1].tx_hash IN
          /\ chain[h].status = "reverted"
          /\ jobs' = [jobs EXCEPT ![h].waits = @ + 1,
                                  ![h].outcome = "Reverted"]
    /\ idx' = idx + 1
    /\ UNCHANGED <<method, pc, token_ids, addresses, base_nonce, transactions,
                   sent_hashes, successful, failed, total_gas_used,
                   total_cost, result, ledgerNonce, chain, externalTxs,
                   nonceReads, submitLog, staleBy>>
    /\ UNCHANGED <<resolveVars, gateVars, reportVars, mainVars, ctorVars, minterVars>>

\* confirm loop, wait_for_transaction_receipt raises: the failure is printed
MultiWaitTimeout ==
    /\ method = "multi" /\ pc = "wait"
    /\ idx < Len(sent_hashes)
    /\ LET h == sent_hashes[idx + 1].tx_hash IN
          jobs' = [jobs EXCEPT ![h].waits = @ + 1,
                               ![h].outcome = "TimedOut"]
    /\ idx' = idx + 1
    /\ UNCHANGED <<method, pc, token_ids, addresses, base_nonce, transactions,
                   sent_hashes, successful, failed, total_gas_used,
                   total_cost, result, ledgerNonce, chain, externalTxs,
                   nonceReads, submitLog, staleBy>>
    /\ UNCHANGED <<resolveVars, gateVars, reportVars, mainVars, ctorVars, minterVars>>

\* return successful == len(token_ids)
MultiReturn ==
    /\ method = "multi" /\ pc = "wait"
    /\ idx = Len(sent_hashes)
    /\ result' = BoolStr(AllSucceeded)
    /\ pc' = "done"
    /\ UNCHANGED <<method, token_ids, addresses, idx, base_nonce,
                   transactions, sent_hashes, successful, failed,
                   total_gas_used, total_cost, ledgerNonce, chain,
                   externalTxs, nonceReads, jobs, submitLog, staleBy>>
    /\ UNCHANGED <<resolveVars, gateVars, reportVars, mainVars, ctorVars, minterVars>>

----------------------------------------------------------------------------
(* Specification of the pipelines *)

\* none of approve_bulk_transfer, bulk_transfer_external and
\* batch_transfer_single_tx is called; the approval is not granted
GateIdle ==
    /\ caller = "none"
    /\ gpc = "idle"
    /\ gate_token_ids = <<>>
    /\ gate_to = 0
    /\ approved = FALSE
    /\ gateTxs = <<>>
    /\ approveLog = <<>>
    /\ pipelineCalls = <<>>
    /\ singleAttempts = 0
    /\ singleError = "none"

\* the locals of _get_nfts_from_events and _get_nfts_by_scanning before a call
ScanIdle ==
    /\ current_block = 0
    /\ chunk_start = 0
    /\ error_count = 0
    /\ received_nfts = {}
    /\ sent_nfts = {}
    /\ token_id = 0
    /\ last_valid = 0
    /\ my_nfts = <<>>
    /\ probeFrom = "none"
    /\ interruptedAt = "none"
    /\ winReceived = {}
    /\ winSent = {}
    /\ chunkLog = <<>>
    /\ probeLog = <<>>
    /\ queryLog = <<>>
    /\ ownedNow = {}
    /\ historyOk = TRUE

ResolveIdle ==
    /\ rpc = "idle"
    /\ alchemyKeyLen = 0
    /\ rpcUrlHasV2 = FALSE
    /\ rpcUrlKeyLen = 0
    /\ apiOutcome = "none"
    /\ apiStatus = 0
    /\ apiBody = <<>>
    /\ apiReturn = [kind |-> "unset", ids |-> <<>>]
    /\ eventsCalled = 0
    /\ nfts = [kind |-> "unset", ids |-> <<>>]
    /\ ScanIdle
    /\ resolveMethod = "auto"
    /\ blocks_back = 0

BatchIdle ==
    /\ method = "none"
    /\ pc = "idle"
    /\ token_ids = <<>>
    /\ addresses = <<>>
    /\ idx = 0
    /\ base_nonce = 0
    /\ transactions = <<>>
    /\ sent_hashes = <<>>
    /\ successful = 0
    /\ failed = 0
    /\ total_gas_used = 0
    /\ total_cost = 0
    /\ result = "none"
    /\ chain = [h \in JobIds |-> [status |-> "none", nonce |-> -1]]
    /\ externalTxs = 0
    /\ nonceReads = 0
    /\ jobs = [h \in JobIds |-> NoJob]
    /\ submitLog = <<>>
    /\ staleBy = 0

\* main has not run, no object is under construction, nothing was reported
MainIdle ==
    /\ mainPc = "idle"
    /\ main_my_nfts = <<>>
    /\ main_addresses = <<>>
    /\ mode = "none"
    /\ dist_mode = "none"
    /\ per_address = 0
    /\ distribution = <<>>
    /\ all_token_ids = <<>>
    /\ all_addresses = <<>>
    /\ resolvedBy = "none"
    /\ ownerOfChecked = {}
    /\ main_token_ids = <<>>
    /\ requested = <<>>
    /\ assigned = <<>>

CtorIdle ==
    /\ ctorClass = "none"
    /\ ctorPc = "idle"
    /\ private_key = "unset"
    /\ urlIdx = 0
    /\ rpc_url = 0
    /\ ctorResult = "none"
    /\ networkCalls = 0

\* run has not been called
MinterIdle ==
    /\ runPc = "idle"
    /\ mint_count = 0
    /\ transfer_enabled = FALSE
    /\ transfer_addresses = <<>>
    /\ usdc_approved = "none"
    /\ mint_i = 0
    /\ successful_mints = 0
    /\ failed_mints = 0
    /\ minted_token_ids = <<>>
    /\ transfer_idx = 0
    /\ successful_transfers = 0
    /\ failed_transfers = 0
    /\ minedCount = 0
    /\ minterTxs = <<>>
    /\ allowanceCovers = "none"
    /\ receiptIds = {}
    /\ transferCalls = <<>>

ReportIdle == tallyReported = FALSE

Init ==
    /\ BatchIdle
    /\ ReportIdle /\ MainIdle /\ CtorIdle /\ MinterIdle
    /\ ledgerNonce \in StartNonces
    /\ ResolveIdle
    /\ GateIdle

Next ==
    \/ \E n \in 0 .. MaxBatch : CallRapid(n)
    \/ \E n \in 0 .. MaxBatch, m \in 0 .. MaxBatch : CallMulti(n, m)
    \/ ReadBaseNonce
    \/ ReadBaseNonceRaises
    \/ RapidBuildOk
    \/ RapidBuildFail
    \/ RapidBuildInterrupt
    \/ RapidStartSend
    \/ RapidSendOk
    \/ RapidSendFail
    \/ RapidStartWait
    \/ \E fee \in ReceiptFees : RapidWaitConfirmed(fee)
    \/ \E fee \in ReceiptFees : RapidWaitReverted(fee)
    \/ RapidWaitTimeout
    \/ RapidSummary
    \/ MultiBuildFail
    \/ MultiSendFail
    \/ MultiSendOk
    \/ MultiStartWait
    \/ MultiWaitConfirmed
    \/ MultiWaitReverted
    \/ MultiWaitTimeout
    \/ MultiReturn
    \/ \E h \in JobIds, status \in {"success", "reverted"} : Mine(h, status)
    \/ ExternalTx

Spec == Init /\ [][Next]_vars

----------------------------------------------------------------------------
(* Properties of the pipelines, checked under Spec *)

Terminal == {"Confirmed", "Reverted", "TimedOut"}

BatchJobs == 1 .. Len(token_ids)

\* some job's build_transaction raised
BuildFailed == \E h \in JobIds : jobs[h].build = "failed"

\* rapid_sequential_transfer went through its three loops and printed the summary
RapidFinished ==
    method = "rapid" /\ pc = "done" /\ result \in {"True", "False"} /\ ~BuildFailed

JobsWith(o) == {h \in JobIds : jobs[h].outcome = o}

\* C1: in rapid_sequential_transfer the base nonce is read once, before any job
\* is built, and the job at index i is built with nonce b + i: once the build
\* loop is over the built nonces are exactly b, b+1, ..., b+N-1 in this order,
\* without duplicate or gap, whatever the ledger's nonce has become meanwhile.
C1_NoncesContiguous ==
    method = "rapid" =>
        /\ nonceReads <= 1
        /\ (nonceReads = 0 => transactions = <<>>)
        /\ \A i \in 1 .. Len(transactions) :
              transactions[i].nonce = base_nonce + (i - 1)
        /\ (pc \in {"send", "wait"} \/ RapidFinished) =>
              /\ nonceReads = 1
              /\ Len(transactions) = Len(token_ids)
              /\ {transactions[i].nonce : i \in 1 .. Len(transactions)}
                    = base_nonce .. (base_nonce + Len(token_ids) - 1)
              /\ Cardinality({transactions[i].nonce : i \in 1 .. Len(transactions)})
                    = Len(token_ids)

C1_Witness ==
    /\ method = "rapid" /\ pc = "send"
    /\ Len(transactions) = 3
    /\ base_nonce = 42
    /\ ledgerNonce > base_nonce
    /\ transactions[3].nonce = 44

\* C2: in both pipelines, once the build of a job has failed, no transaction of
\* the batch has been handed to send_raw_transaction, then or later.
C2_FailFast ==
    BuildFailed => (submitLog = <<>> /\ \A h \in JobIds : jobs[h].submit # "ok")

\* C3: in the submit loop of rapid_sequential_transfer a failure at index i
\* does not stop the loop: every built job, before and after i, is handed to
\* send_raw_transaction, and at the end every accepted job has been waited on
\* and has a terminal outcome.
C3_SubmitFailureDoesNotStop ==
    method = "rapid" =>
        /\ pc = "send" => \A i \in 1 .. idx : jobs[i].submit # "none"
        /\ (pc = "wait" \/ RapidFinished) =>
              \A i \in 1 .. Len(transactions) : jobs[i].submit # "none"
        /\ RapidFinished =>
              \A h \in JobIds :
                  jobs[h].submit = "ok" =>
                      jobs[h].waits = 1 /\ jobs[h].outcome \in Terminal

C3_Witness ==
    /\ RapidFinished
    /\ base_nonce = 42
    /\ jobs[1].submit = "ok"
    /\ jobs[2].submit = "failed"
    /\ jobs[3].submit = "ok" /\ jobs[3].nonce = 44
    /\ jobs[3].outcome \in Terminal

\* C4: in both pipelines the nonces accepted by send_raw_transaction form a
\* strictly increasing sequence: of two submitted jobs the one with the smaller
\* nonce is submitted first.
C4_SubmitInNonceOrder ==
    \A i, j \in 1 .. Len(submitLog) :
        i < j => submitLog[i] < submitLog[j]

C4_Witness ==
    /\ method = "multi" /\ pc = "wait"
    /\ Len(submitLog) = 2
    /\ jobs[2].submit = "failed"
    /\ submitLog[2] = base_nonce + 2

\* the state part of C5: no job is waited on twice; in the confirm loop the
\* jobs before the loop index have been waited on once and the others not yet;
\* when the method returns every accepted job has exactly one terminal outcome
C5_State ==
    /\ \A h \in JobIds : jobs[h].waits <= 1
    /\ pc = "wait" =>
          \A k \in 1 .. Len(sent_hashes) :
              jobs[sent_hashes[k].tx_hash].waits = (IF k <= idx THEN 1 ELSE 0)
    /\ (pc = "done" /\ result \in {"True", "False"}) =>
          \A h \in JobIds :
              jobs[h].submit = "ok" =>
                  jobs[h].waits = 1 /\ jobs[h].outcome \in Terminal

\* the step part of C5: an outcome that is set is never changed, and a step
\* sets the outcome of at most one job
C5_Step ==
    /\ \A h \in JobIds :
          jobs[h].outcome # "none" => jobs'[h].outcome = jobs[h].outcome
    /\ Cardinality({h \in JobIds : jobs'[h].outcome # jobs[h].outcome}) <= 1

\* C5: in the confirm loop of both pipelines every accepted job is waited on
\* exactly once and gets exactly one terminal outcome, never changed later; a
\* timeout, error or failed receipt of one job neither ends the loop nor touches
\* another job's outcome.
C5_ConfirmEachOnce == [](C5_State) /\ [][C5_Step]_vars

C5_Witness ==
    /\ method = "multi" /\ pc = "done"
    /\ jobs[1].outcome = "TimedOut"
    /\ jobs[2].outcome = "Reverted"
    /\ jobs[3].outcome = "Confirmed"

GasOf == [h \in JobIds |-> jobs[h].gasUsed]

CostOf == [h \in JobIds |-> jobs[h].gasUsed * jobs[h].effectiveGasPrice]

\* C6: during and after the confirm loop of rapid_sequential_transfer,
\* total_gas_used is the sum of gasUsed and total_cost the sum of gasUsed *
\* effectiveGasPrice over the jobs whose receipt reported success; reverted,
\* timed-out and unsubmitted jobs add nothing.
C6_TotalsOverConfirmed ==
    (method = "rapid" /\ (pc = "wait" \/ RapidFinished)) =>
        /\ total_gas_used = SumFn(GasOf, JobsWith("Confirmed"))
        /\ total_cost = SumFn(CostOf, JobsWith("Confirmed"))

C6_Witness ==
    /\ RapidFinished
    /\ jobs[1].outcome = "Reverted"
    /\ jobs[2].outcome = "Confirmed" /\ jobs[2].gasUsed = 2
    /\ jobs[3].outcome = "Confirmed" /\ jobs[3].gasUsed = 3
    /\ total_gas_used = 5
    /\ total_cost = 31

C8_TrueIffAllConfirmed ==
    (pc = "done" /\ result \in {"True", "False"}) =>
        (result = "True" <=> \A i \in BatchJobs : jobs[i].outcome = "Confirmed")

C8_Witness ==
    /\ method = "multi" /\ pc = "done"
    /\ Len(token_ids) = 2
    /\ result = "True"
    /\ jobs[1].outcome = "Confirmed" /\ jobs[2].outcome = "Confirmed"

\* the submit loop of rapid_sequential_transfer is over
RapidSubmitted == method = "rapid" /\ (pc = "wait" \/ RapidFinished)

\* C9 as stated: when the base nonce is stale at submission, every job of the
\* batch fails at submission.
C9_StaleFailsUniformly ==
    (RapidSubmitted /\ staleBy > 0) =>
        \A i \in BatchJobs : jobs[i].submit # "ok"

\* C9 amended: when the base nonce is stale by k at submission, every job is
\* still submitted with the nonce b + i fixed at build time; the first
\* min(k, N) jobs, whose nonces are below the account's transaction count, are
\* rejected, and the later jobs are not rejected for their nonce (they can be
\* accepted: the batch fails uniformly only when k >= N).
C9_StalePrefixRejected ==
    (RapidSubmitted /\ staleBy > 0) =>
        \A i \in BatchJobs :
            /\ jobs[i].submit # "none"
            /\ jobs[i].nonce = base_nonce + (i - 1)
            /\ i <= staleBy => jobs[i].submit = "rejected"
            /\ (i > staleBy /\ externalTxs = staleBy)
                  => jobs[i].submit \in {"ok", "failed"}

C9_Witness ==
    /\ RapidFinished
    /\ Len(token_ids) = 3
    /\ staleBy = 1
    /\ jobs[1].submit = "rejected"
    /\ jobs[2].submit = "ok" /\ jobs[2].outcome = "Confirmed"
    /\ jobs[3].submit = "ok" /\ jobs[3].outcome = "Confirmed"

----------------------------------------------------------------------------
(* Ownership resolver: get_my_nfts(method="auto") and _get_nfts_from_api *)

\* largest number of entries of data["ownedNfts"]
MaxOwned == 2

\* lengths an API key found in the environment can have (0: not set)
KeyLengths == {0, 5, 32}

\* status codes the indexing API answers with
StatusCodes == {200, 404, 500}

\* tokenId strings of the response, as sequences of characters
TokenIdStrings ==
    { <<"7">>, <<"1", "0">>, <<"0", "x", "a">>, <<"0", "x", "3">>,
      <<"a">>, <<"0", "x">> }

Bodies == UNION {[1 .. n -> TokenIdStrings] : n \in 0 .. MaxOwned}

NoneValue == [kind |-> "None", ids |-> <<>>]

Unset == [kind |-> "unset", ids |-> <<>>]

ListValue(ids) == [kind |-> "list", ids |-> ids]

\* value of a character as a digit of the base, -1 when it is none
DigitValue(c, base) ==
    CASE c = "0" -> 0
      [] c = "1" -> 1
      [] c = "3" -> 3
      [] c = "7" -> 7
      [] c = "a" /\ base = 16 -> 10
      [] OTHER -> -1

\* int(digits, base) of a string without prefix; -1 stands for ValueError
RECURSIVE ParseDigits(_, _, _)
ParseDigits(cs, base, acc) ==
    IF cs = <<>> THEN acc
    ELSE IF DigitValue(Head(cs), base) < 0 THEN -1
    ELSE ParseDigits(Tail(cs), base, acc * base + DigitValue(Head(cs), base))

StartsWith0x(cs) == Len(cs) >= 2 /\ cs[1] = "0" /\ cs[2] = "x"

\* int(token_id_hex, 16) if token_id_hex.startswith("0x") else int(token_id_hex)
ParseTokenId(cs) ==
    IF StartsWith0x(cs)
    THEN (IF Len(cs) = 2 THEN -1
          ELSE ParseDigits(SubSeq(cs, 3, Len(cs)), 16, 0))
    ELSE (IF cs = <<>> THEN -1 ELSE ParseDigits(cs, 10, 0))

\* list.sort(): s with x put before the first larger element
RECURSIVE InsertSorted(_, _)
InsertSorted(x, s) ==
    IF s = <<>> THEN <<x>>
    ELSE IF x < Head(s) THEN <<x>> \o s
    ELSE <<Head(s)>> \o InsertSorted(x, Tail(s))

RECURSIVE SortAscending(_)
SortAscending(s) ==
    IF s = <<>> THEN <<>>
    ELSE InsertSorted(s[Len(s)], SortAscending(SubSeq(s, 1, Len(s) - 1)))

\* api_key = os.getenv("ALCHEMY_API_KEY") or <tail of BASE_RPC_URL>
\*               if "/v2/" in BASE_RPC_URL else None
\* (the conditional binds last: without "/v2/" the key is None); 0 is None or ""
ApiKeyLen ==
    IF rpcUrlHasV2
    THEN (IF alchemyKeyLen > 0 THEN alchemyKeyLen ELSE rpcUrlKeyLen)
    ELSE 0

\* if not api_key or len(api_key) < 10: return None
KeyUsable == ApiKeyLen >= 10

\* the token_ids list built by the for loop over data["ownedNfts"]
ParsedIds(body) == [i \in 1 .. Len(body) |-> ParseTokenId(body[i])]

\* some int(...) of the loop raises ValueError
ParseRaises(body) == \E i \in 1 .. Len(body) : ParseTokenId(body[i]) < 0

\* variant: the list is returned also when it is empty
ApiResultEmptyIsFinal(token_ids_) == ListValue(SortAscending(token_ids_))

\* if token_ids: sort and return token_ids, else: return None
ApiResult(token_ids_) ==
    IF token_ids_ # <<>> THEN ListValue(SortAscending(token_ids_)) ELSE NoneValue

\* get_my_nfts: nfts = self._get_nfts_from_api(); if nfts is not None: return
\* nfts; else return self._get_nfts_from_events(blocks_back)
AfterApi(outcome, status, body, ret) ==
    /\ rpc = "api"
    /\ apiOutcome' = outcome
    /\ apiStatus' = status
    /\ apiBody' = body
    /\ apiReturn' = ret
    /\ IF ret.kind = "list"
       THEN /\ nfts' = ret
            /\ rpc' = "done"
            /\ UNCHANGED eventsCalled
       ELSE /\ eventsCalled' = eventsCalled + 1
            /\ rpc' = "events"
            /\ UNCHANGED nfts
    /\ UNCHANGED <<alchemyKeyLen, rpcUrlHasV2, rpcUrlKeyLen>>
    /\ UNCHANGED scanVars
    /\ UNCHANGED <<batchVars, gateVars, reportVars, mainVars, ctorVars, minterVars>>

\* my_nfts = batch.get_my_nfts(): if method == "auto", the API is tried first
CallGetMyNfts ==
    /\ rpc = "idle"
    /\ resolveMethod = "auto"
    /\ rpc' = "api"
    /\ UNCHANGED <<alchemyKeyLen, rpcUrlHasV2, rpcUrlKeyLen, apiOutcome,
                   apiStatus, apiBody, apiReturn, eventsCalled, nfts>>
    /\ UNCHANGED scanVars
    /\ UNCHANGED <<batchVars, gateVars, reportVars, mainVars, ctorVars, minterVars>>

\* import requests raises ImportError
ApiImportError ==
    /\ rpc = "api"
    /\ AfterApi("import_error", 0, <<>>, NoneValue)

\* no usable key: return None before any request
ApiNoKey ==
    /\ ~KeyUsable
    /\ AfterApi("no_key", 0, <<>>, NoneValue)

\* requests.get raises (timeout, connection error), or response.json() does
ApiTransportFail ==
    /\ KeyUsable
    /\ AfterApi("transport_error", 0, <<>>, NoneValue)

\* response.status_code is not 200
ApiNon200(status) ==
    /\ KeyUsable
    /\ status # 200
    /\ AfterApi("response", status, <<>>, NoneValue)

\* response.status_code == 200: the tokenIds are parsed; a ValueError is caught
\* by except Exception
ApiOk(body) ==
    /\ KeyUsable
    /\ AfterApi("response", 200, body,
                IF ParseRaises(body) THEN NoneValue
                ELSE ApiResult(ParsedIds(body)))

InitResolve ==
    /\ BatchIdle
    /\ ReportIdle /\ MainIdle /\ CtorIdle /\ MinterIdle
    /\ ledgerNonce = 0
    /\ rpc = "idle"
    /\ alchemyKeyLen \in KeyLengths
    /\ rpcUrlHasV2 \in BOOLEAN
    /\ rpcUrlKeyLen \in (IF rpcUrlHasV2 THEN KeyLengths ELSE {0})
    /\ apiOutcome = "none"
    /\ apiStatus = 0
    /\ apiBody = <<>>
    /\ apiReturn = Unset
    /\ eventsCalled = 0
    /\ nfts = Unset
    /\ ScanIdle
    /\ resolveMethod = "auto"
    /\ blocks_back = 0
    /\ GateIdle

NextResolve ==
    \/ CallGetMyNfts
    \/ ApiImportError
    \/ ApiNoKey
    \/ ApiTransportFail
    \/ \E status \in StatusCodes : ApiNon200(status)
    \/ \E body \in Bodies : ApiOk(body)

SpecResolve == InitResolve /\ [][NextResolve]_vars

----------------------------------------------------------------------------
(* Properties of the resolver, checked under SpecResolve *)

\* _get_nfts_from_api has returned
ApiReturned == rpc \in {"events", "done"}

----------------------------------------------------------------------------
(* Ownership resolver: _get_nfts_from_events and _get_nfts_by_scanning *)

\* chunk_size = 1000 in the source; the model scans small windows
chunk_size == 2

\* max_errors = 3
max_errors == 3

\* max_check=1000 in the source: the last identifier linear probing queries
MaxCheck == 5

\* 100 in the source: the run of failing identifiers that ends linear probing
GapLimit == 2

\* values w3.eth.block_number can return
BlockNumbers == {0, 5, 9}

\* values of the argument blocks_back
BlocksBack == {3, 50}

\* token identifiers that occur in the Transfer logs of the collection
LogTokens == {1, 2}

\* methods get_my_nfts is called with
Methods == {"auto", "events", "scan"}

RaisedValue == [kind |-> "raised", ids |-> <<>>]

\* sorted(list(S))
RECURSIVE SortedList(_)
SortedList(S) ==
    IF S = {} THEN <<>>
    ELSE LET m == CHOOSE x \in S : \A y \in S : x <= y
         IN  <<m>> \o SortedList(S \ {m})

\* from_block = max(0, current_block - blocks_back)
FromBlock(cur, back) == IF cur - back > 0 THEN cur - back ELSE 0

\* return self._get_nfts_by_scanning(max_check=1000), called from `site`:
\* my_nfts = [], last_valid = 0, the loop starts at identifier 1
EnterProbing(site) ==
    /\ rpc' = "probe"
    /\ probeFrom' = site
    /\ token_id' = 1
    /\ last_valid' = 0
    /\ my_nfts' = <<>>
    /\ probeLog' = <<>>

\* get_my_nfts(method="events"): return self._get_nfts_from_events(blocks_back)
CallGetMyNftsEvents ==
    /\ rpc = "idle"
    /\ resolveMethod = "events"
    /\ rpc' = "events"
    /\ eventsCalled' = eventsCalled + 1
    /\ UNCHANGED <<alchemyKeyLen, rpcUrlHasV2, rpcUrlKeyLen, apiOutcome,
                   apiStatus, apiBody, apiReturn, nfts>>
    /\ UNCHANGED scanVars
    /\ UNCHANGED <<batchVars, gateVars, reportVars, mainVars, ctorVars, minterVars>>

\* get_my_nfts(method="scan"): return self._get_nfts_by_scanning()
CallGetMyNftsScan ==
    /\ rpc = "idle"
    /\ resolveMethod \notin {"auto", "events"}
    /\ EnterProbing("method")
    /\ UNCHANGED <<alchemyKeyLen, rpcUrlHasV2, rpcUrlKeyLen, apiOutcome,
                   apiStatus, apiBody, apiReturn, eventsCalled, nfts>>
    /\ UNCHANGED <<resolveMethod, blocks_back, current_block, chunk_start,
                   error_count, received_nfts, sent_nfts, interruptedAt,
                   winReceived, winSent, chunkLog,
                   queryLog, ownedNow, historyOk>>
    /\ UNCHANGED <<batchVars, gateVars, reportVars, mainVars, ctorVars, minterVars>>

\* current_block = self.w3.eth.block_number; from_block = max(0, ...); the
\* sets and counters of the chunk loop are initialised
EventsReadBlock(b) ==
    /\ rpc = "events"
    /\ current_block' = b
    /\ chunk_start' = FromBlock(b, blocks_back)
    /\ received_nfts' = {}
    /\ sent_nfts' = {}
    /\ error_count' = 0
    /\ rpc' = "chunks"
    /\ UNCHANGED <<alchemyKeyLen, rpcUrlHasV2, rpcUrlKeyLen, apiOutcome,
                   apiStatus, apiBody, apiReturn, eventsCalled, nfts>>
    /\ UNCHANGED <<resolveMethod, blocks_back, token_id, last_valid, my_nfts,
                   probeFrom, interruptedAt, winReceived, winSent, chunkLog,
                   queryLog, ownedNow, historyOk,
                   probeLog>>
    /\ UNCHANGED <<batchVars, gateVars, reportVars, mainVars, ctorVars, minterVars>>

\* variant: the failure of the block number read leaves get_my_nfts
EventsReadBlockEscapes ==
    /\ rpc = "events"
    /\ nfts' = RaisedValue
    /\ rpc' = "done"
    /\ UNCHANGED <<alchemyKeyLen, rpcUrlHasV2, rpcUrlKeyLen, apiOutcome,
                   apiStatus, apiBody, apiReturn, eventsCalled>>
    /\ UNCHANGED scanVars
    /\ UNCHANGED <<batchVars, gateVars, reportVars, mainVars, ctorVars, minterVars>>

\* the block number cannot be read: linear probing instead
EventsReadBlockRaises ==
    /\ rpc = "events"
    /\ EnterProbing("no_block")
    /\ UNCHANGED <<alchemyKeyLen, rpcUrlHasV2, rpcUrlKeyLen, apiOutcome,
                   apiStatus, apiBody, apiReturn, eventsCalled, nfts>>
    /\ UNCHANGED <<resolveMethod, blocks_back, current_block, chunk_start,
                   error_count, received_nfts, sent_nfts, interruptedAt,
                   winReceived, winSent, chunkLog,
                   queryLog, ownedNow, historyOk>>
    /\ UNCHANGED <<batchVars, gateVars, reportVars, mainVars, ctorVars, minterVars>>

\* the for loop over range(from_block, current_block + 1, chunk_size) has a
\* chunk left (the break at chunk_end >= current_block leaves it at the same
\* point as the exhausted range)
InChunkLoop == rpc = "chunks" /\ chunk_start <= current_block

\* variant: the last chunk is as long as the others
ChunkEndUncapped(start, cur) == start + chunk_size - 1

\* chunk_end = min(chunk_start + chunk_size - 1, current_block)
ChunkEnd(start, cur) == Min(start + chunk_size - 1, cur)

\* the record of one pass of the chunk loop: the range its get_logs calls
\* carry as fromBlock and toBlock, and what became of the call for the
\* transfers to the account and of the call for the transfers from it
Queried(logs_to, logs_from) ==
    [fromBlock |-> chunk_start, toBlock |-> ChunkEnd(chunk_start, current_block),
     logs_to |-> logs_to, logs_from |-> logs_from]

\* the ledger behind the logs of one chunk, with the fewest transfers that
\* produce them: a token only transferred to the account was not owned and
\* is owned afterwards, a token only transferred from it was owned and is
\* not afterwards, a token transferred both ways is owned as before
OwnedAfter(owned, to, from) == (owned \cup (to \ from)) \ (from \ to)

LedgerStep(owned, to, from) ==
    /\ (to \ from) \cap owned = {}
    /\ (from \ to) \subseteq owned

\* variant: a successful chunk leaves the error counter as it is
EventsChunkOkNoReset(to, from) ==
    /\ InChunkLoop
    /\ received_nfts' = received_nfts \cup to
    /\ sent_nfts' = sent_nfts \cup from
    /\ UNCHANGED error_count
    /\ chunk_start' = chunk_start + chunk_size
    /\ winReceived' = winReceived \cup to
    /\ winSent' = winSent \cup from
    /\ chunkLog' = Append(chunkLog, "ok")
    /\ queryLog' = Append(queryLog, Queried("returned", "returned"))
    /\ ownedNow' = OwnedAfter(ownedNow, to, from)
    /\ historyOk' = (historyOk /\ LedgerStep(ownedNow, to, from))
    /\ UNCHANGED <<rpc, alchemyKeyLen, rpcUrlHasV2, rpcUrlKeyLen, apiOutcome,
                   apiStatus, apiBody, apiReturn, eventsCalled, nfts>>
    /\ UNCHANGED <<resolveMethod, blocks_back, current_block, token_id,
                   last_valid, my_nfts, probeFrom, interruptedAt, probeLog>>
    /\ UNCHANGED <<batchVars, gateVars, reportVars, mainVars, ctorVars, minterVars>>

\* one chunk, both get_logs calls return: the tokens of the logs to the
\* account go to received_nfts, those of the logs from it to sent_nfts, and
\* error_count = 0
EventsChunkOk(to, from) ==
    /\ InChunkLoop
    /\ received_nfts' = received_nfts \cup to
    /\ sent_nfts' = sent_nfts \cup from
    /\ error_count' = 0
    /\ chunk_start' = chunk_start + chunk_size
    /\ winReceived' = winReceived \cup to
    /\ winSent' = winSent \cup from
    /\ chunkLog' = Append(chunkLog, "ok")
    /\ queryLog' = Append(queryLog, Queried("returned", "returned"))
    /\ ownedNow' = OwnedAfter(ownedNow, to, from)
    /\ historyOk' = (historyOk /\ LedgerStep(ownedNow, to, from))
    /\ UNCHANGED <<rpc, alchemyKeyLen, rpcUrlHasV2, rpcUrlKeyLen, apiOutcome,
                   apiStatus, apiBody, apiReturn, eventsCalled, nfts>>
    /\ UNCHANGED <<resolveMethod, blocks_back, current_block, token_id,
                   last_valid, my_nfts, probeFrom, interruptedAt, probeLog>>
    /\ UNCHANGED <<batchVars, gateVars, reportVars, mainVars, ctorVars, minterVars>>

\* one chunk, a get_logs call raises: the first one (at = "to"), or the second
\* one (at = "from") after the logs to the account were added. error_count += 1;
\* at max_errors the method returns linear probing, else the loop continues
\* with the next chunk. The chunk's transfers were `to` and `from`. The
\* history of the window ends with the reconstruction that is given up.
EventsChunkFail(to, from, at) ==
    /\ InChunkLoop
    /\ received_nfts' = IF at = "from" THEN received_nfts \cup to
                        ELSE received_nfts
    /\ error_count' = error_count + 1
    /\ winReceived' = winReceived \cup to
    /\ winSent' = winSent \cup from
    /\ chunkLog' = Append(chunkLog, "fail")
    /\ IF error_count + 1 >= max_errors
       THEN /\ EnterProbing("errors")
            /\ UNCHANGED chunk_start
            /\ queryLog' = <<>>
            /\ ownedNow' = {}
            /\ historyOk' = TRUE
       ELSE /\ chunk_start' = chunk_start + chunk_size
            /\ queryLog' = Append(queryLog, IF at = "to"
                                            THEN Queried("raised", "skipped")
                                            ELSE Queried("returned", "raised"))
            /\ ownedNow' = OwnedAfter(ownedNow, to, from)
            /\ historyOk' = (historyOk /\ LedgerStep(ownedNow, to, from))
            /\ UNCHANGED <<rpc, probeFrom, token_id, last_valid, my_nfts,
                           probeLog>>
    /\ UNCHANGED <<alchemyKeyLen, rpcUrlHasV2, rpcUrlKeyLen, apiOutcome,
                   apiStatus, apiBody, apiReturn, eventsCalled, nfts>>
    /\ UNCHANGED <<resolveMethod, blocks_back, current_block, sent_nfts,
                   interruptedAt>>
    /\ UNCHANGED <<batchVars, gateVars, reportVars, mainVars, ctorVars, minterVars>>

\* variant: the partial holdings are returned also when there are none
InterruptResultAlways(owned) == ListValue(SortedList(owned))

\* except KeyboardInterrupt: if len(current_owned) > 0: return
\* sorted(list(current_owned)), else: raise
InterruptResult(owned) ==
    IF owned # {} THEN ListValue(SortedList(owned)) ELSE RaisedValue

\* a KeyboardInterrupt arrives in the first get_logs call of a chunk
\* (at = "to"), or in the second one (at = "from") after the logs `to` were
\* added to received_nfts
EventsInterrupt(to, at) ==
    /\ InChunkLoop
    /\ at = "to" => to = {}
    /\ received_nfts' = IF at = "from" THEN received_nfts \cup to
                        ELSE received_nfts
    /\ interruptedAt' = at
    /\ queryLog' = Append(queryLog, IF at = "to"
                                    THEN Queried("interrupted", "skipped")
                                    ELSE Queried("returned", "interrupted"))
    /\ nfts' = InterruptResult(received_nfts' \ sent_nfts)
    /\ rpc' = "done"
    /\ UNCHANGED <<alchemyKeyLen, rpcUrlHasV2, rpcUrlKeyLen, apiOutcome,
                   apiStatus, apiBody, apiReturn, eventsCalled>>
    /\ UNCHANGED <<resolveMethod, blocks_back, current_block, chunk_start,
                   error_count, sent_nfts, token_id, last_valid, my_nfts,
                   probeFrom, winReceived, winSent, chunkLog, ownedNow,
                   historyOk, probeLog>>
    /\ UNCHANGED <<batchVars, gateVars, reportVars, mainVars, ctorVars, minterVars>>

\* the loop is over: my_nfts = sorted(list(received_nfts - sent_nfts))
EventsReturn ==
    /\ rpc = "chunks"
    /\ ~InChunkLoop
    /\ nfts' = ListValue(SortedList(received_nfts \ sent_nfts))
    /\ rpc' = "done"
    /\ UNCHANGED <<alchemyKeyLen, rpcUrlHasV2, rpcUrlKeyLen, apiOutcome,
                   apiStatus, apiBody, apiReturn, eventsCalled>>
    /\ UNCHANGED scanVars
    /\ UNCHANGED <<batchVars, gateVars, reportVars, mainVars, ctorVars, minterVars>>

\* the for loop over range(1, max_check + 1) has an identifier left
InProbeLoop == rpc = "probe" /\ token_id <= MaxCheck

\* variant: the run of failures ends the scan one identifier earlier
GapExceededAtLimit(t, lv) == t - lv >= GapLimit

\* if token_id - last_valid > 100
GapExceeded(t, lv) == t - lv > GapLimit

\* ownerOf(token_id) returns the account: last_valid = token_id and the
\* identifier is appended
ProbeMine ==
    /\ InProbeLoop
    /\ last_valid' = token_id
    /\ my_nfts' = Append(my_nfts, token_id)
    /\ token_id' = token_id + 1
    /\ probeLog' = Append(probeLog, "mine")
    /\ UNCHANGED <<rpc, alchemyKeyLen, rpcUrlHasV2, rpcUrlKeyLen, apiOutcome,
                   apiStatus, apiBody, apiReturn, eventsCalled, nfts>>
    /\ UNCHANGED <<resolveMethod, blocks_back, current_block, chunk_start,
                   error_count, received_nfts, sent_nfts, probeFrom,
                   interruptedAt, winReceived, winSent, chunkLog,
                   queryLog, ownedNow, historyOk>>
    /\ UNCHANGED <<batchVars, gateVars, reportVars, mainVars, ctorVars, minterVars>>

\* ownerOf(token_id) returns another owner: last_valid = token_id
ProbeOther ==
    /\ InProbeLoop
    /\ last_valid' = token_id
    /\ token_id' = token_id + 1
    /\ probeLog' = Append(probeLog, "other")
    /\ UNCHANGED <<rpc, alchemyKeyLen, rpcUrlHasV2, rpcUrlKeyLen, apiOutcome,
                   apiStatus, apiBody, apiReturn, eventsCalled, nfts>>
    /\ UNCHANGED <<resolveMethod, blocks_back, current_block, chunk_start,
                   error_count, received_nfts, sent_nfts, my_nfts, probeFrom,
                   interruptedAt, winReceived, winSent, chunkLog,
                   queryLog, ownedNow, historyOk>>
    /\ UNCHANGED <<batchVars, gateVars, reportVars, mainVars, ctorVars, minterVars>>

\* ownerOf(token_id) raises: past the gap the loop breaks and my_nfts is
\* returned, else the identifier is skipped
ProbeRaises ==
    /\ InProbeLoop
    /\ probeLog' = Append(probeLog, "raise")
    /\ IF GapExceeded(token_id, last_valid)
       THEN /\ nfts' = ListValue(my_nfts)
            /\ rpc' = "done"
            /\ UNCHANGED token_id
       ELSE /\ token_id' = token_id + 1
            /\ UNCHANGED <<rpc, nfts>>
    /\ UNCHANGED <<alchemyKeyLen, rpcUrlHasV2, rpcUrlKeyLen, apiOutcome,
                   apiStatus, apiBody, apiReturn, eventsCalled>>
    /\ UNCHANGED <<resolveMethod, blocks_back, current_block, chunk_start,
                   error_count, received_nfts, sent_nfts, last_valid, my_nfts,
                   probeFrom, interruptedAt, winReceived, winSent, chunkLog,
                   queryLog, ownedNow, historyOk>>
    /\ UNCHANGED <<batchVars, gateVars, reportVars, mainVars, ctorVars, minterVars>>

\* a KeyboardInterrupt arrives in the ownerOf call: break, my_nfts is returned
ProbeInterrupt ==
    /\ InProbeLoop
    /\ interruptedAt' = "probe"
    /\ nfts' = ListValue(my_nfts)
    /\ rpc' = "done"
    /\ UNCHANGED <<alchemyKeyLen, rpcUrlHasV2, rpcUrlKeyLen, apiOutcome,
                   apiStatus, apiBody, apiReturn, eventsCalled>>
    /\ UNCHANGED <<resolveMethod, blocks_back, current_block, chunk_start,
                   error_count, received_nfts, sent_nfts, token_id, last_valid,
                   my_nfts, probeFrom, winReceived, winSent, chunkLog,
                   queryLog, ownedNow, historyOk, probeLog>>
    /\ UNCHANGED <<batchVars, gateVars, reportVars, mainVars, ctorVars, minterVars>>

\* the range is exhausted: return my_nfts
ProbeReturn ==
    /\ rpc = "probe"
    /\ ~InProbeLoop
    /\ nfts' = ListValue(my_nfts)
    /\ rpc' = "done"
    /\ UNCHANGED <<alchemyKeyLen, rpcUrlHasV2, rpcUrlKeyLen, apiOutcome,
                   apiStatus, apiBody, apiReturn, eventsCalled>>
    /\ UNCHANGED scanVars
    /\ UNCHANGED <<batchVars, gateVars, reportVars, mainVars, ctorVars, minterVars>>

\* a process without ALCHEMY_API_KEY and without "/v2/" in BASE_RPC_URL calls
\* get_my_nfts with a method and a window
InitScan ==
    /\ BatchIdle
    /\ ReportIdle /\ MainIdle /\ CtorIdle /\ MinterIdle
    /\ ledgerNonce = 0
    /\ rpc = "idle"
    /\ alchemyKeyLen = 0
    /\ rpcUrlHasV2 = FALSE
    /\ rpcUrlKeyLen = 0
    /\ apiOutcome = "none"
    /\ apiStatus = 0
    /\ apiBody = <<>>
    /\ apiReturn = Unset
    /\ eventsCalled = 0
    /\ nfts = Unset
    /\ ScanIdle
    /\ resolveMethod \in Methods
    /\ blocks_back \in BlocksBack
    /\ GateIdle

NextScan ==
    \/ CallGetMyNfts
    \/ CallGetMyNftsEvents
    \/ CallGetMyNftsScan
    \/ ApiImportError
    \/ ApiNoKey
    \/ \E b \in BlockNumbers : EventsReadBlock(b)
    \/ EventsReadBlockRaises
    \/ \E to \in SUBSET LogTokens, from \in SUBSET LogTokens :
          EventsChunkOk(to, from)
    \/ \E to \in SUBSET LogTokens, from \in SUBSET LogTokens,
          at \in {"to", "from"} : EventsChunkFail(to, from, at)
    \/ \E to \in SUBSET LogTokens, at \in {"to", "from"} :
          EventsInterrupt(to, at)
    \/ EventsReturn
    \/ ProbeMine
    \/ ProbeOther
    \/ ProbeRaises
    \/ ProbeInterrupt
    \/ ProbeReturn

SpecScan == InitScan /\ [][NextScan]_vars

----------------------------------------------------------------------------
(* approve_bulk_transfer, bulk_transfer_external, batch_transfer_single_tx *)

\* messages of the exceptions batch_transfer_single_tx can catch, by what the
\* test of the handler looks for in them
ErrorMessages == {"names batchTransferFrom", "says not found", "other"}

\* destinations main passes
Destinations == {AddressAt(1), AddressAt(2)}

\* the variables of the pipeline a calling method leaves alone
pipelineLocals == <<addresses, idx, base_nonce, transactions, sent_hashes,
                    successful, failed, total_gas_used, total_cost, chain,
                    externalTxs, jobs, submitLog, staleBy>>

\* positions of gateTxs: each of two calls submits at most one transaction
GateTxIds == {1, 2}

\* the transaction the running call has submitted
LastGateTx == gateTxs[Len(gateTxs)]

\* a pending approval or batch transaction whose nonce is the account's next
\* one is mined; a successful approval grants isApprovedForAll
MineGate(k, status) ==
    /\ gpc \notin {"idle", "done"}
    /\ pc # "done"
    /\ k <= Len(gateTxs)
    /\ gateTxs[k].status = "pending"
    /\ gateTxs[k].nonce = ledgerNonce
    /\ gateTxs' = [gateTxs EXCEPT ![k].status = status]
    /\ ledgerNonce' = ledgerNonce + 1
    /\ approved' = (approved \/ (gateTxs[k].kind = "approval" /\ status = "success"))
    /\ UNCHANGED <<method, pc, token_ids, result, nonceReads>>
    /\ UNCHANGED pipelineLocals
    /\ UNCHANGED <<caller, gpc, gate_token_ids, gate_to, approveLog,
                   pipelineCalls, singleAttempts, singleError>>
    /\ UNCHANGED <<resolveVars, reportVars, mainVars, ctorVars, minterVars>>

\* variant: the caller goes on whatever the approval returned
GateAlwaysPassed(ret) == TRUE

\* if not self.approve_bulk_transfer(): ... return False
GatePassed(ret) == ret = "True"

\* approve_bulk_transfer returns: to bulk_transfer_external, which goes on or
\* returns False, or to a caller that calls it a second time
ApproveReturns(rec) ==
    /\ approveLog' = Append(approveLog, rec)
    /\ IF caller = "bulk"
       THEN IF GatePassed(rec.ret)
            THEN gpc' = "bulk_try" /\ UNCHANGED result
            ELSE gpc' = "done" /\ result' = "False"
       ELSE /\ gpc' = (IF approveLog = <<>> THEN "approve" ELSE "done")
            /\ UNCHANGED result
    /\ UNCHANGED <<method, pc, token_ids, ledgerNonce, nonceReads>>
    /\ UNCHANGED pipelineLocals
    /\ UNCHANGED <<caller, gate_token_ids, gate_to, approved, pipelineCalls,
                   singleAttempts, singleError>>
    /\ UNCHANGED <<resolveVars, reportVars, mainVars, ctorVars, minterVars>>

\* main calls approve_bulk_transfer, and again when it has returned
CallApproveTwice ==
    /\ gpc = "idle"
    /\ caller' = "approve"
    /\ gpc' = "approve"
    /\ UNCHANGED batchVars
    /\ UNCHANGED <<gate_token_ids, gate_to, approved, gateTxs, approveLog,
                   pipelineCalls, singleAttempts, singleError>>
    /\ UNCHANGED <<resolveVars, reportVars, mainVars, ctorVars, minterVars>>

\* batch.bulk_transfer_external(token_ids, to_address): the approval first
CallBulk(n, to) ==
    /\ gpc = "idle"
    /\ caller' = "bulk"
    /\ gate_token_ids' = [i \in 1 .. n |-> TokenAt(i)]
    /\ gate_to' = to
    /\ gpc' = "approve"
    /\ UNCHANGED batchVars
    /\ UNCHANGED <<approved, gateTxs, approveLog, pipelineCalls,
                   singleAttempts, singleError>>
    /\ UNCHANGED <<resolveVars, reportVars, mainVars, ctorVars, minterVars>>

\* isApprovedForAll(...).call() raises: except Exception, return False
ApproveReadRaises ==
    /\ gpc = "approve"
    /\ ApproveReturns([read |-> "raised", sent |-> 0, receipt |-> "none",
                       ret |-> "False"])
    /\ UNCHANGED gateTxs

\* if is_approved: return True
ApproveAlready ==
    /\ gpc = "approve"
    /\ approved
    /\ ApproveReturns([read |-> "approved", sent |-> 0, receipt |-> "none",
                       ret |-> "True"])
    /\ UNCHANGED gateTxs

\* not approved, and get_transaction_count, build_transaction,
\* sign_transaction or send_raw_transaction raises: return False
ApproveSubmitRaises ==
    /\ gpc = "approve"
    /\ ~approved
    /\ ApproveReturns([read |-> "not_approved", sent |-> 0,
                       receipt |-> "none", ret |-> "False"])
    /\ UNCHANGED gateTxs

\* variant: the transaction is sent without looking at is_approved
ApproveSendOkUnchecked ==
    /\ gpc = "approve"
    /\ gateTxs' = Append(gateTxs, [kind |-> "approval", status |-> "pending",
                                   nonce |-> ledgerNonce,
                                   call |-> Len(approveLog) + 1])
    /\ gpc' = "approve_wait"
    /\ UNCHANGED batchVars
    /\ UNCHANGED <<caller, gate_token_ids, gate_to, approved, approveLog,
                   pipelineCalls, singleAttempts, singleError>>
    /\ UNCHANGED <<resolveVars, reportVars, mainVars, ctorVars, minterVars>>

\* not approved: setApprovalForAll is built with the account's transaction
\* count as nonce, signed and accepted by send_raw_transaction
ApproveSendOk ==
    /\ gpc = "approve"
    /\ ~approved
    /\ gateTxs' = Append(gateTxs, [kind |-> "approval", status |-> "pending",
                                   nonce |-> ledgerNonce,
                                   call |-> Len(approveLog) + 1])
    /\ gpc' = "approve_wait"
    /\ UNCHANGED batchVars
    /\ UNCHANGED <<caller, gate_token_ids, gate_to, approved, approveLog,
                   pipelineCalls, singleAttempts, singleError>>
    /\ UNCHANGED <<resolveVars, reportVars, mainVars, ctorVars, minterVars>>

\* receipt['status'] == 1: return True
ApproveWaitSuccess ==
    /\ gpc = "approve_wait"
    /\ LastGateTx.status = "success"
    /\ ApproveReturns([read |-> "not_approved", sent |-> 1,
                       receipt |-> "success", ret |-> "True"])
    /\ UNCHANGED gateTxs

\* variant: a receipt of any status counts as approval
ApproveWaitRevertedPasses ==
    /\ gpc = "approve_wait"
    /\ LastGateTx.status = "reverted"
    /\ ApproveReturns([read |-> "not_approved", sent |-> 1,
                       receipt |-> "reverted", ret |-> "True"])
    /\ UNCHANGED gateTxs

\* the receipt has another status: return False
ApproveWaitReverted ==
    /\ gpc = "approve_wait"
    /\ LastGateTx.status = "reverted"
    /\ ApproveReturns([read |-> "not_approved", sent |-> 1,
                       receipt |-> "reverted", ret |-> "False"])
    /\ UNCHANGED gateTxs

\* wait_for_transaction_receipt times out or raises: except Exception, return
\* False
ApproveWaitTimeout ==
    /\ gpc = "approve_wait"
    /\ ApproveReturns([read |-> "not_approved", sent |-> 1,
                       receipt |-> "timeout", ret |-> "False"])
    /\ UNCHANGED gateTxs

\* return self.rapid_sequential_transfer(token_ids, to_address)
CallPipeline ==
    /\ method' = "rapid"
    /\ token_ids' = gate_token_ids
    /\ pc' = "nonce"
    /\ pipelineCalls' = Append(pipelineCalls,
                               [token_ids |-> gate_token_ids,
                                to_address |-> gate_to])
    /\ gpc' = "pipeline"

\* bulk_transfer_external after the approval: the transfers list is built and
\* rapid_sequential_transfer is called
BulkCallRapid ==
    /\ caller = "bulk"
    /\ gpc = "bulk_try"
    /\ CallPipeline
    /\ UNCHANGED <<result, ledgerNonce, nonceReads>>
    /\ UNCHANGED pipelineLocals
    /\ UNCHANGED <<caller, gate_token_ids, gate_to, approved, gateTxs,
                   approveLog, singleAttempts, singleError>>
    /\ UNCHANGED <<resolveVars, reportVars, mainVars, ctorVars, minterVars>>

\* get_transaction_count of that call raises: the call is inside the try of
\* bulk_transfer_external, whose handler calls rapid_sequential_transfer again
BulkRetryRapid ==
    /\ caller = "bulk"
    /\ gpc = "pipeline"
    /\ pc = "nonce"
    /\ Len(pipelineCalls) = 1
    /\ nonceReads' = nonceReads + 1
    /\ CallPipeline
    /\ UNCHANGED <<result, ledgerNonce>>
    /\ UNCHANGED pipelineLocals
    /\ UNCHANGED <<caller, gate_token_ids, gate_to, approved, gateTxs,
                   approveLog, singleAttempts, singleError>>
    /\ UNCHANGED <<resolveVars, reportVars, mainVars, ctorVars, minterVars>>

\* batch.batch_transfer_single_tx(token_ids, to_address)
CallSingle(n, to) ==
    /\ gpc = "idle"
    /\ caller' = "single"
    /\ gate_token_ids' = [i \in 1 .. n |-> TokenAt(i)]
    /\ gate_to' = to
    /\ gpc' = "single_build"
    /\ UNCHANGED batchVars
    /\ UNCHANGED <<approved, gateTxs, approveLog, pipelineCalls,
                   singleAttempts, singleError>>
    /\ UNCHANGED <<resolveVars, reportVars, mainVars, ctorVars, minterVars>>

\* variant: every message leads to the pipeline
FallsBackAlways(msg) == TRUE

\* variant: only a message that names the function leads to the pipeline
FallsBackOnlyNamed(msg) == msg = "names batchTransferFrom"

\* if "batchTransferFrom" in error_msg or "not found" in error_msg.lower()
FallsBack(msg) == msg \in {"names batchTransferFrom", "says not found"}

\* except Exception as e: the pipeline is called and its result returned, or
\* False is returned
SingleCaught(msg) ==
    /\ singleError' = msg
    /\ IF FallsBack(msg)
       THEN /\ CallPipeline
            /\ UNCHANGED result
       ELSE /\ result' = "False"
            /\ gpc' = "done"
            /\ UNCHANGED <<method, token_ids, pc, pipelineCalls>>
    /\ UNCHANGED <<ledgerNonce, nonceReads>>
    /\ UNCHANGED pipelineLocals
    /\ UNCHANGED <<caller, gate_token_ids, gate_to, approved, approveLog>>
    /\ UNCHANGED <<resolveVars, reportVars, mainVars, ctorVars, minterVars>>

\* batchTransferFrom(...).build_transaction, get_block, sign_transaction or
\* send_raw_transaction raises
SingleSubmitRaises(msg) ==
    /\ gpc = "single_build"
    /\ singleAttempts' = singleAttempts + 1
    /\ SingleCaught(msg)
    /\ UNCHANGED gateTxs

\* the batch transaction is built with the account's transaction count as
\* nonce, signed and accepted by send_raw_transaction
SingleSendOk ==
    /\ gpc = "single_build"
    /\ singleAttempts' = singleAttempts + 1
    /\ gateTxs' = Append(gateTxs, [kind |-> "batch", status |-> "pending",
                                   nonce |-> ledgerNonce, call |-> 1])
    /\ gpc' = "single_wait"
    /\ UNCHANGED batchVars
    /\ UNCHANGED <<caller, gate_token_ids, gate_to, approved, approveLog,
                   pipelineCalls, singleError>>
    /\ UNCHANGED <<resolveVars, reportVars, mainVars, ctorVars, minterVars>>

\* receipt['status'] == 1: return True, else: return False
SingleWaitReceipt ==
    /\ gpc = "single_wait"
    /\ LastGateTx.status \in {"success", "reverted"}
    /\ ~(LastGateTx.status = "success" /\ gate_token_ids = <<>>)
    /\ result' = BoolStr(LastGateTx.status = "success")
    /\ gpc' = "done"
    /\ UNCHANGED <<method, pc, token_ids, ledgerNonce, nonceReads>>
    /\ UNCHANGED pipelineLocals
    /\ UNCHANGED <<caller, gate_token_ids, gate_to, approved, gateTxs,
                   approveLog, pipelineCalls, singleAttempts, singleError>>
    /\ UNCHANGED <<resolveVars, reportVars, mainVars, ctorVars, minterVars>>

\* wait_for_transaction_receipt times out or raises
SingleWaitRaises(msg) ==
    /\ gpc = "single_wait"
    /\ SingleCaught(msg)
    /\ UNCHANGED <<gateTxs, singleAttempts>>

\* receipt['status'] == 1 for an empty token_ids: the cost per NFT divides by
\* len(token_ids) = 0, and the exception is caught like any other
SingleWaitReceiptEmpty ==
    /\ gpc = "single_wait"
    /\ LastGateTx.status = "success"
    /\ gate_token_ids = <<>>
    /\ SingleCaught("other")
    /\ UNCHANGED <<gateTxs, singleAttempts>>

InitGate ==
    /\ BatchIdle
    /\ ReportIdle /\ MainIdle /\ CtorIdle /\ MinterIdle
    /\ ledgerNonce \in StartNonces
    /\ ResolveIdle
    /\ caller = "none"
    /\ gpc = "idle"
    /\ gate_token_ids = <<>>
    /\ gate_to = 0
    /\ approved \in BOOLEAN
    /\ gateTxs = <<>>
    /\ approveLog = <<>>
    /\ pipelineCalls = <<>>
    /\ singleAttempts = 0
    /\ singleError = "none"

NextGate ==
    \/ CallApproveTwice
    \/ \E n \in 0 .. MaxBatch, to \in Destinations : CallBulk(n, to)
    \/ \E n \in 0 .. MaxBatch, to \in Destinations : CallSingle(n, to)
    \/ ApproveReadRaises
    \/ ApproveAlready
    \/ ApproveSubmitRaises
    \/ ApproveSendOk
    \/ ApproveWaitSuccess
    \/ ApproveWaitReverted
    \/ ApproveWaitTimeout
    \/ BulkCallRapid
    \/ BulkRetryRapid
    \/ \E msg \in ErrorMessages : SingleSubmitRaises(msg)
    \/ SingleSendOk
    \/ SingleWaitReceipt
    \/ SingleWaitReceiptEmpty
    \/ \E msg \in ErrorMessages : SingleWaitRaises(msg)
    \/ \E k \in GateTxIds, status \in {"success", "reverted"} :
          MineGate(k, status)
    \/ ReadBaseNonce
    \/ ReadBaseNonceRaises
    \/ RapidBuildOk
    \/ RapidBuildFail
    \/ RapidBuildInterrupt
    \/ RapidStartSend
    \/ RapidSendOk
    \/ RapidSendFail
    \/ RapidStartWait
    \/ \E fee \in ReceiptFees : RapidWaitConfirmed(fee)
    \/ \E fee \in ReceiptFees : RapidWaitReverted(fee)
    \/ RapidWaitTimeout
    \/ RapidSummary
    \/ \E h \in JobIds, status \in {"success", "reverted"} : Mine(h, status)

SpecGate == InitGate /\ [][NextGate]_vars

----------------------------------------------------------------------------
(* Properties of the resolver's strategies, checked under SpecResolve (C11)
   and SpecScan *)

StrictlyAscending(s) == \A i, j \in 1 .. Len(s) : i < j => s[i] < s[j]

\* C11: whichever strategy produced it, the list get_my_nfts returns is
\* strictly ascending by token identifier, so that no identifier occurs twice.
C11_StrictlyAscending ==
    (rpc = "done" /\ nfts.kind = "list") => StrictlyAscending(nfts.ids)

\* _get_nfts_from_events went through its chunk loop and returned normally
EventsCompleted ==
    /\ rpc = "done"
    /\ eventsCalled > 0
    /\ probeFrom = "none"
    /\ interruptedAt = "none"

\* C12: when _get_nfts_from_events completes without switching to linear
\* probing, the list it returns is (the tokens transferred to the account)
\* minus (the tokens transferred from the account) over every chunk of the
\* window, in ascending order.
C12_WindowComplete ==
    EventsCompleted =>
        nfts = ListValue(SortedList(winReceived \ winSent))

\* number of "fail" entries at the end of a chunk log
RECURSIVE FailRun(_)
FailRun(log) ==
    IF log = <<>> \/ log[Len(log)] # "fail" THEN 0
    ELSE 1 + FailRun(SubSeq(log, 1, Len(log) - 1))

\* the log holds max_errors failures in a row somewhere
HasErrorRun(log) ==
    \E i \in 1 .. Len(log) :
        /\ i + max_errors - 1 <= Len(log)
        /\ \A k \in 0 .. (max_errors - 1) : log[i + k] = "fail"

\* C13: the chunk loop hands over to linear probing exactly when 3 chunks in a
\* row have failed; a successful chunk resets the counter, so that failures
\* separated by successes never end the scan, however many there are.
C13_AbortAfterThreeInARow ==
    /\ probeFrom = "errors" <=> HasErrorRun(chunkLog)
    /\ probeFrom = "errors" =>
          /\ FailRun(chunkLog) = max_errors
          /\ ~HasErrorRun(SubSeq(chunkLog, 1, Len(chunkLog) - 1))
    /\ rpc = "chunks" =>
          /\ error_count = FailRun(chunkLog)
          /\ error_count < max_errors

C13_Witness ==
    /\ EventsCompleted
    /\ chunkLog = <<"fail", "fail", "ok", "fail", "fail">>

\* a KeyboardInterrupt arrived during the chunk loop
EventsInterrupted == interruptedAt \in {"to", "from"}

\* C14 as stated: an interrupted reconstruction always returns the holdings
\* reconstructed so far, also when there are none.
C14_InterruptAlwaysReturns ==
    EventsInterrupted =>
        nfts = ListValue(SortedList(received_nfts \ sent_nfts))

\* C14 amended: an interrupted reconstruction returns received_nfts minus
\* sent_nfts as accumulated so far, in ascending order, when this set is not
\* empty, and lets the KeyboardInterrupt propagate when it is empty; when no
\* chunk failed and the interrupt arrives in the first query of a chunk, the
\* set is received minus sent over the chunks processed before.
C14_InterruptReturnsNonEmpty ==
    EventsInterrupted =>
        /\ rpc = "done"
        /\ received_nfts \ sent_nfts # {} =>
              /\ nfts = ListValue(SortedList(received_nfts \ sent_nfts))
              /\ StrictlyAscending(nfts.ids)
              /\ {nfts.ids[i] : i \in 1 .. Len(nfts.ids)}
                    = received_nfts \ sent_nfts
        /\ received_nfts \ sent_nfts = {} => nfts = RaisedValue
        /\ (interruptedAt = "to" /\ \A i \in 1 .. Len(chunkLog) : chunkLog[i] = "ok")
              => received_nfts \ sent_nfts = winReceived \ winSent

C14_Witness ==
    /\ interruptedAt = "to"
    /\ chunkLog = <<"ok", "ok">>
    /\ current_block = 9
    /\ winReceived = {1, 2}
    /\ winSent = {1}
    /\ nfts = ListValue(<<2>>)

\* the identifiers the probe log has an answer "mine" for
ProbedMine(log) == {t \in 1 .. Len(log) : log[t] = "mine"}

\* the last identifier before t whose ownerOf call returned (0: none)
LastValidBefore(log, t) ==
    LET ok == {j \in 1 .. (t - 1) : log[j] # "raise"}
    IN  IF ok = {} THEN 0 ELSE CHOOSE j \in ok : \A k \in ok : k <= j

\* the probe at t raised and the gap since the last valid identifier is over
\* the limit
StopsAt(log, t) ==
    log[t] = "raise" /\ t - LastValidBefore(log, t) > GapLimit

\* linear probing returned without an interrupt
ProbingCompleted ==
    rpc = "done" /\ probeFrom # "none" /\ interruptedAt # "probe"

\* C16: linear probing queries the identifiers 1, 2, ... in order up to
\* max_check, skips an identifier whose ownerOf call raises, stops at the first
\* raising identifier t with t - last_valid over the gap limit, and returns
\* exactly the probed identifiers whose owner is the account, ascending.
C16_LinearProbing ==
    /\ rpc = "probe" =>
          /\ token_id = Len(probeLog) + 1
          /\ my_nfts = SortedList(ProbedMine(probeLog))
          /\ last_valid = LastValidBefore(probeLog, token_id)
          /\ \A t \in 1 .. Len(probeLog) : ~StopsAt(probeLog, t)
    /\ ProbingCompleted =>
          /\ nfts = ListValue(SortedList(ProbedMine(probeLog)))
          /\ StrictlyAscending(nfts.ids)
          /\ Len(probeLog) \in 1 .. MaxCheck
          /\ \A t \in 1 .. (Len(probeLog) - 1) : ~StopsAt(probeLog, t)
          /\ \/ StopsAt(probeLog, Len(probeLog))
             \/ Len(probeLog) = MaxCheck

C16_Witness ==
    /\ ProbingCompleted
    /\ probeLog = <<"mine", "raise", "raise", "raise">>
    /\ nfts = ListValue(<<1>>)

\* the second half of C15, which holds: an interrupted linear probing returns
\* the identifiers found so far
ProbeInterruptReturnsFound ==
    interruptedAt = "probe" =>
        /\ rpc = "done"
        /\ nfts = ListValue(SortedList(ProbedMine(probeLog)))

----------------------------------------------------------------------------
(* Interruption of the build loop, checked under Spec *)

\* the jobs whose build_transaction returned
BuiltJobs == {h \in JobIds : jobs[h].build = "ok"}

\* C15: a user interruption during the build loop of rapid_sequential_transfer
\* leaves the jobs built so far in the hands of the program (returned or
\* reported), as an interruption of linear probing returns the holdings found
\* so far.
C15_BuildInterruptKeepsJobs ==
    (method = "rapid" /\ result = "interrupted") =>
        Len(transactions) = Cardinality(BuiltJobs)

----------------------------------------------------------------------------
(* Properties of the approval gate and of the methods behind it, checked
   under SpecGate *)

\* the transactions the i-th call of approve_bulk_transfer submitted
TxsOfCall(i) ==
    {k \in 1 .. Len(gateTxs) :
        gateTxs[k].kind = "approval" /\ gateTxs[k].call = i}

\* C17 as stated: two calls of approve_bulk_transfer in a row submit at most
\* one transaction in total, the second call submits none and returns True,
\* whatever the first call returned.
C17_SecondCallIsNoOp ==
    caller = "approve" =>
        /\ Len(gateTxs) <= 1
        /\ TxsOfCall(2) = {}
        /\ Len(approveLog) = 2 => approveLog[2].ret = "True"

\* C17 amended: every call submits at most one transaction; when the first
\* call returned True, the second call submits none, so that there is at most
\* one in total, and it returns True unless its read of isApprovedForAll
\* raises.
C17_NoOpAfterSuccess ==
    caller = "approve" =>
        /\ \A i \in 1 .. 2 : Cardinality(TxsOfCall(i)) <= 1
        /\ (approveLog # <<>> /\ approveLog[1].ret = "True") =>
              /\ Len(gateTxs) <= 1
              /\ TxsOfCall(2) = {}
              /\ gpc \in {"approve", "done"}
              /\ Len(approveLog) = 2 =>
                    /\ approveLog[2].read \in {"approved", "raised"}
                    /\ approveLog[2].sent = 0
                    /\ approveLog[2].ret = "True"
                          <=> approveLog[2].read = "approved"

C17_Witness ==
    /\ caller = "approve" /\ gpc = "done"
    /\ approveLog[1] = [read |-> "not_approved", sent |-> 1,
                        receipt |-> "success", ret |-> "True"]
    /\ approveLog[2] = [read |-> "approved", sent |-> 0,
                        receipt |-> "none", ret |-> "True"]
    /\ Len(gateTxs) = 1

\* C18: approve_bulk_transfer returns True only if the approval was granted
\* when it was read, or the one transaction the call submitted has a receipt
\* with success status; a reverted receipt, a timeout and an error on the way
\* give False.
C18_TrueOnlyIfApproved ==
    \A i \in 1 .. Len(approveLog) :
        LET rec == approveLog[i] IN
        /\ rec.ret \in {"True", "False"}
        /\ rec.ret = "True" <=>
              (rec.read = "approved" \/ rec.receipt = "success")
        /\ rec.ret = "True" => approved
        /\ rec.receipt = "success" =>
              \E k \in TxsOfCall(i) : gateTxs[k].status = "success"
        /\ rec.receipt = "reverted" =>
              \E k \in TxsOfCall(i) : gateTxs[k].status = "reverted"
        /\ rec.sent = Cardinality(TxsOfCall(i))
        /\ rec.sent <= 1

C18_Witness ==
    /\ caller = "approve" /\ gpc = "done"
    /\ approveLog[1].receipt = "reverted" /\ approveLog[1].ret = "False"
    /\ approveLog[2].receipt = "timeout" /\ approveLog[2].ret = "False"
    /\ gateTxs[2].status = "success"

\* a transfer transaction has been built or submitted, or the pipeline called
TransferStarted ==
    \/ pipelineCalls # <<>>
    \/ pc # "idle"
    \/ method # "none"
    \/ nonceReads > 0
    \/ submitLog # <<>>
    \/ \E h \in JobIds : jobs[h] # NoJob \/ chain[h].status # "none"

\* C19: in bulk_transfer_external nothing of a transfer happens unless
\* approve_bulk_transfer returned True before; when it returned False the
\* method returns False without calling the pipeline.
C19_NoTransferWithoutApproval ==
    caller = "bulk" =>
        /\ Len(approveLog) <= 1
        /\ TransferStarted =>
              (approveLog # <<>> /\ approveLog[1].ret = "True")
        /\ (approveLog # <<>> /\ approveLog[1].ret = "False") =>
              /\ gpc = "done"
              /\ result = "False"
              /\ ~TransferStarted

C19_Witness ==
    /\ caller = "bulk" /\ gpc = "done"
    /\ Len(gate_token_ids) = 2
    /\ approveLog[1].receipt = "reverted"
    /\ result = "False"

\* C20: when the exception batch_transfer_single_tx catches names the function
\* or says "not found", the method calls rapid_sequential_transfer exactly
\* once, with its own tokens and destination, attempts the single transaction
\* only once, and returns what the pipeline returns; with another message it
\* returns False without calling the pipeline.
C20_FallbackOnce ==
    caller = "single" =>
        /\ singleAttempts <= 1
        /\ Len(pipelineCalls) <= 1
        /\ pipelineCalls # <<>>
              <=> singleError \in {"names batchTransferFrom", "says not found"}
        /\ pipelineCalls # <<>> =>
              /\ pipelineCalls[1] = [token_ids |-> gate_token_ids,
                                     to_address |-> gate_to]
              /\ method = "rapid"
              /\ token_ids = gate_token_ids
              /\ singleAttempts = 1
              /\ (pc = "done" /\ result \in {"True", "False"}) =>
                    (result = "True"
                        <=> \A i \in BatchJobs : jobs[i].outcome = "Confirmed")
        /\ singleError = "other" =>
              gpc = "done" /\ result = "False" /\ ~TransferStarted

C20_Witness ==
    /\ caller = "single"
    /\ singleError = "says not found"
    /\ Len(pipelineCalls) = 1
    /\ Len(gate_token_ids) = 2
    /\ pc = "done" /\ result = "False"
    /\ jobs[1].outcome = "Confirmed"
    /\ jobs[2].outcome = "Reverted"

----------------------------------------------------------------------------
(* The single transaction and an unrelated error, checked under SpecGate *)

----------------------------------------------------------------------------
(* main: input mode "1", the holdings are resolved and distributed *)

\* tokens an account can hold
HeldTokens == {3, 7, 9}

\* strategies of get_my_nfts a list of holdings can come from
Strategies == {"api", "events", "probe"}

\* longest list of holdings the indexed lookup returns
MaxHeld == 2

\* the lists get_my_nfts returns: ascending without repetition from the
\* event logs and from linear probing, sorted with the repetitions of the
\* response, and never empty, from the indexed lookup
HoldingLists(by) ==
    IF by = "api"
    THEN {s \in UNION {[1 .. k -> HeldTokens] : k \in 1 .. MaxHeld} :
             \A i \in 1 .. Len(s) - 1 : s[i] <= s[i + 1]}
    ELSE {SortedList(T) : T \in SUBSET HeldTokens}

\* what is typed at a prompt for a number
NumberInputs == {<<>>, <<"0">>, <<"1">>, <<"3">>, <<"a">>, <<"-", "1">>}

\* lists of at most n destinations
AddressLists(n) == UNION {[1 .. k -> Destinations] : k \in 0 .. n}

\* the digits of a stripped input, without its sign
Unsigned(cs) == IF cs # <<>> /\ Head(cs) = "-" THEN Tail(cs) ELSE cs

\* int(s) returns: s is a string of digits, with or without a minus sign;
\* else it raises ValueError
IsInt(cs) == Unsigned(cs) # <<>> /\ ParseDigits(Unsigned(cs), 10, 0) >= 0

\* int(s) of such a string
IntOf(cs) ==
    IF cs # <<>> /\ Head(cs) = "-" THEN 0 - ParseDigits(Unsigned(cs), 10, 0)
    ELSE ParseDigits(cs, 10, 0)

\* variant: the last n elements
TakeLast(s, n) == SubSeq(s, Len(s) - Min(n, Len(s)) + 1, Len(s))

\* s[:n]: the first n elements, and all but the last -n for a negative n
Take(s, n) ==
    IF n >= 0 THEN SubSeq(s, 1, Min(n, Len(s)))
    ELSE SubSeq(s, 1, Len(s) + n)

\* sum(s)
RECURSIVE SumSeq(_)
SumSeq(s) == IF s = <<>> THEN 0 ELSE Head(s) + SumSeq(Tail(s))

\* the set of the elements of s
Range(s) == {s[i] : i \in 1 .. Len(s)}

\* batch.rapid_sequential_transfer(token_ids, to_address)
MainCallsRapid(tokens) ==
    /\ method' = "rapid"
    /\ token_ids' = tokens
    /\ pc' = "nonce"
    /\ UNCHANGED <<addresses, idx, base_nonce, transactions, sent_hashes,
                   successful, failed, total_gas_used, total_cost, result,
                   ledgerNonce, chain, externalTxs, nonceReads, jobs,
                   submitLog, staleBy>>
    /\ UNCHANGED gateVars

\* batch.bulk_transfer_external(token_ids, to_address)
MainCallsBulk(tokens, to) ==
    /\ caller' = "bulk"
    /\ gate_token_ids' = tokens
    /\ gate_to' = to
    /\ gpc' = "approve"
    /\ UNCHANGED <<approved, gateTxs, approveLog, pipelineCalls,
                   singleAttempts, singleError>>
    /\ UNCHANGED batchVars

\* batch.transfer_to_multiple(token_ids, addresses): lists of different
\* lengths are both cut to the shorter length
MainCallsMultiple(tokens, addrs) ==
    /\ method' = "multi"
    /\ LET min_count == Min(Len(tokens), Len(addrs)) IN
          /\ token_ids' = IF Len(tokens) # Len(addrs)
                          THEN Take(tokens, min_count) ELSE tokens
          /\ addresses' = IF Len(tokens) # Len(addrs)
                          THEN Take(addrs, min_count) ELSE addrs
    /\ pc' = "nonce"
    /\ UNCHANGED <<idx, base_nonce, transactions, sent_hashes,
                   successful, failed, total_gas_used, total_cost, result,
                   ledgerNonce, chain, externalTxs, nonceReads, jobs,
                   submitLog, staleBy>>
    /\ UNCHANGED gateVars

\* main ends without calling a method of batch
MainCallsNothing == UNCHANGED <<batchVars, gateVars>>

\* my_nfts = batch.get_my_nfts() returns the ascending list S, found by the
\* strategy `by` (linear probing read the owner of every token it returns);
\* if not my_nfts: return
MainGetMyNfts(S, by) ==
    /\ mainPc = "idle"
    /\ main_my_nfts' = S
    /\ resolvedBy' = by
    /\ ownerOfChecked' = IF by = "probe" THEN Range(S) ELSE {}
    /\ mainPc' = IF S = <<>> THEN "returned" ELSE "menu"
    /\ MainCallsNothing
    /\ UNCHANGED <<main_addresses, mode, dist_mode, main_token_ids,
                   per_address, distribution, all_token_ids, all_addresses,
                   requested, assigned>>
    /\ UNCHANGED <<resolveVars, reportVars, ctorVars, minterVars>>

\* mode "1": count = int(count), at most len(my_nfts);
\* token_ids = my_nfts[:count]; after "y" the chosen method is called
MainOneAddress(count_input, to, meth, confirm) ==
    /\ mainPc = "menu"
    /\ mode' = "1"
    /\ LET count == IntOf(count_input)
           tokens == Take(main_my_nfts,
                          IF count > Len(main_my_nfts) THEN Len(main_my_nfts)
                          ELSE count)
       IN  IF ~IsInt(count_input)
           THEN /\ mainPc' = "exit1"
                /\ MainCallsNothing
                /\ UNCHANGED <<main_token_ids, requested>>
           ELSE /\ requested' = <<count>>
                /\ main_token_ids' = tokens
                /\ IF confirm
                   THEN /\ mainPc' = "called"
                        /\ IF meth = "2" THEN MainCallsBulk(tokens, to)
                           ELSE MainCallsRapid(tokens)
                   ELSE /\ mainPc' = "returned"
                        /\ MainCallsNothing
    /\ UNCHANGED <<main_my_nfts, main_addresses, dist_mode, per_address,
                   distribution, all_token_ids, all_addresses, resolvedBy,
                   ownerOfChecked, assigned>>
    /\ UNCHANGED <<resolveVars, reportVars, ctorVars, minterVars>>

\* mode "2": the distribution mode and the addresses are read;
\* if not addresses: return
MainEnterAddresses(dm, D) ==
    /\ mainPc = "menu"
    /\ mode' = "2"
    /\ dist_mode' = dm
    /\ main_addresses' = D
    /\ mainPc' = IF D = <<>> THEN "returned" ELSE "plan"
    /\ MainCallsNothing
    /\ UNCHANGED <<main_my_nfts, main_token_ids, per_address, distribution,
                   all_token_ids, all_addresses, resolvedBy, ownerOfChecked,
                   requested, assigned>>
    /\ UNCHANGED <<resolveVars, reportVars, ctorVars, minterVars>>

\* distribution mode "1": count = min(len(my_nfts), len(addresses));
\* token_ids = my_nfts[:count]; after "y" transfer_to_multiple(token_ids,
\* addresses)
MainOnePerAddress(confirm) ==
    /\ mainPc = "plan"
    /\ dist_mode = "1"
    /\ LET count == Min(Len(main_my_nfts), Len(main_addresses))
           tokens == Take(main_my_nfts, count)
       IN  /\ main_token_ids' = tokens
           /\ IF confirm
              THEN /\ mainPc' = "called"
                   /\ MainCallsMultiple(tokens, main_addresses)
              ELSE /\ mainPc' = "returned"
                   /\ MainCallsNothing
    /\ UNCHANGED <<main_my_nfts, main_addresses, mode, dist_mode, per_address,
                   distribution, all_token_ids, all_addresses, resolvedBy,
                   ownerOfChecked, requested, assigned>>
    /\ UNCHANGED <<resolveVars, reportVars, ctorVars, minterVars>>

\* no token and no address assigned yet
EmptyPlan == [tokens |-> <<>>, addrs |-> <<>>, counts |-> <<>>]

\* for i in range(amount): idx = len(all_token_ids); if idx < len(my_nfts):
\* the next holding and addr are appended
RECURSIVE AssignTo(_, _, _, _)
AssignTo(S, addr, amount, plan) ==
    IF amount <= 0 THEN plan
    ELSE AssignTo(S, addr, amount - 1,
                  IF Len(plan.tokens) < Len(S)
                  THEN [plan EXCEPT
                           !.tokens = Append(plan.tokens,
                                             S[Len(plan.tokens) + 1]),
                           !.addrs = Append(plan.addrs, addr)]
                  ELSE plan)

\* for addr, amount in zip(addresses, distribution): the inner loop, from the
\* j-th address on
RECURSIVE Distribute(_, _, _, _, _)
Distribute(S, D, amounts, j, plan) ==
    IF j > Len(D) \/ j > Len(amounts) THEN plan
    ELSE LET next == AssignTo(S, D[j], amounts[j], plan)
         IN  Distribute(S, D, amounts, j + 1,
                        [next EXCEPT !.counts =
                            Append(plan.counts,
                                   Len(next.tokens) - Len(plan.tokens))])

\* variant: the requested number is kept whatever the holdings
ClampedPerAddressOff(k, n, d) == k

\* total_needed = per_address * len(addresses); if total_needed > len(my_nfts):
\* per_address = len(my_nfts) // len(addresses)
ClampedPerAddress(k, n, d) == IF k * d > n THEN n \div d ELSE k

\* distribution mode "2": per_address = int(per_address), clamped; every
\* address gets per_address holdings; after "y" transfer_to_multiple(
\* all_token_ids, all_addresses)
MainEvenSplit(k_input, confirm) ==
    /\ mainPc = "plan"
    /\ dist_mode = "2"
    /\ LET k == IntOf(k_input)
           clamped == ClampedPerAddress(k, Len(main_my_nfts),
                                        Len(main_addresses))
           plan == Distribute(main_my_nfts, main_addresses,
                              [j \in 1 .. Len(main_addresses) |-> clamped],
                              1, EmptyPlan)
       IN  IF ~IsInt(k_input)
           THEN /\ mainPc' = "exit1"
                /\ MainCallsNothing
                /\ UNCHANGED <<per_address, all_token_ids, all_addresses,
                               requested, assigned>>
           ELSE /\ requested' = <<k>>
                /\ per_address' = clamped
                /\ all_token_ids' = plan.tokens
                /\ all_addresses' = plan.addrs
                /\ assigned' = plan.counts
                /\ IF confirm
                   THEN /\ mainPc' = "called"
                        /\ MainCallsMultiple(plan.tokens, plan.addrs)
                   ELSE /\ mainPc' = "returned"
                        /\ MainCallsNothing
    /\ UNCHANGED <<main_my_nfts, main_addresses, mode, dist_mode,
                   main_token_ids, distribution, resolvedBy, ownerOfChecked>>
    /\ UNCHANGED <<resolveVars, reportVars, ctorVars, minterVars>>

\* amount = int(amount) if amount else 1
AmountOf(cs) == IF cs = <<>> THEN 1 ELSE IntOf(cs)

\* the amounts read before the first input that raises ValueError
RECURSIVE AmountsRead(_)
AmountsRead(inputs) ==
    IF inputs = <<>> \/ (Head(inputs) # <<>> /\ ~IsInt(Head(inputs)))
    THEN <<>>
    ELSE <<AmountOf(Head(inputs))>> \o AmountsRead(Tail(inputs))

\* variant: the plan is built whatever the total
ExceedsHoldingsOff(total, n) == FALSE

\* if total > len(my_nfts): return
ExceedsHoldings(total, n) == total > n

\* distribution mode "3": an amount is read for every address; a total above
\* the holdings ends main; else every address gets its amount and after "y"
\* transfer_to_multiple(all_token_ids, all_addresses)
MainCustom(inputs, confirm) ==
    /\ mainPc = "plan"
    /\ dist_mode = "3"
    /\ Len(inputs) = Len(main_addresses)
    /\ LET amounts == AmountsRead(inputs)
           plan == Distribute(main_my_nfts, main_addresses, amounts, 1,
                              EmptyPlan)
       IN  /\ distribution' = amounts
           /\ requested' = amounts
           /\ IF Len(amounts) < Len(inputs)
              THEN /\ mainPc' = "exit1"
                   /\ MainCallsNothing
                   /\ UNCHANGED <<all_token_ids, all_addresses, assigned>>
              ELSE IF ExceedsHoldings(SumSeq(amounts), Len(main_my_nfts))
              THEN /\ mainPc' = "returned"
                   /\ MainCallsNothing
                   /\ UNCHANGED <<all_token_ids, all_addresses, assigned>>
              ELSE /\ all_token_ids' = plan.tokens
                   /\ all_addresses' = plan.addrs
                   /\ assigned' = plan.counts
                   /\ IF confirm
                      THEN /\ mainPc' = "called"
                           /\ MainCallsMultiple(plan.tokens, plan.addrs)
                      ELSE /\ mainPc' = "returned"
                           /\ MainCallsNothing
    /\ UNCHANGED <<main_my_nfts, main_addresses, mode, dist_mode,
                   main_token_ids, per_address, resolvedBy, ownerOfChecked>>
    /\ UNCHANGED <<resolveVars, reportVars, ctorVars, minterVars>>

\* a process in which main has constructed batch and chosen input mode "1"
InitPlan ==
    /\ BatchIdle
    /\ ReportIdle /\ MainIdle /\ CtorIdle /\ MinterIdle
    /\ ledgerNonce = 0
    /\ ResolveIdle
    /\ GateIdle

NextPlan ==
    \/ \E by \in Strategies : \E S \in HoldingLists(by) :
          MainGetMyNfts(S, by)
    \/ \E count_input \in NumberInputs, to \in Destinations,
          meth \in {"1", "2"}, confirm \in BOOLEAN :
          MainOneAddress(count_input, to, meth, confirm)
    \/ \E dm \in {"1", "2", "3"}, D \in AddressLists(MaxBatch) :
          MainEnterAddresses(dm, D)
    \/ \E confirm \in BOOLEAN : MainOnePerAddress(confirm)
    \/ \E k_input \in NumberInputs, confirm \in BOOLEAN :
          MainEvenSplit(k_input, confirm)
    \/ \E inputs \in UNION {[1 .. k -> NumberInputs] : k \in 1 .. MaxBatch},
          confirm \in BOOLEAN : MainCustom(inputs, confirm)

SpecPlan == InitPlan /\ [][NextPlan]_vars

----------------------------------------------------------------------------
(* Properties of the distribution planner, checked under SpecPlan *)

\* the jobs of a called pipeline, in the order of its loop: job i transfers
\* token_ids[i] to addresses[i]
PipelineJobs == [i \in 1 .. Len(token_ids) |-> <<token_ids[i], addresses[i]>>]

\* C22: under one-per-address, for the ascending holdings S and the
\* destinations D, transfer_to_multiple runs with exactly min(|S|, |D|) jobs,
\* job i being (S[i], D[i]) in that order; a holding or destination beyond
\* that length is in no job, and without confirmation nothing is called.
C22_OnePerAddress ==
    (dist_mode = "1" /\ mainPc \in {"called", "returned"}
        /\ main_addresses # <<>>) =>
        LET S == main_my_nfts
            D == main_addresses
            n == IF Len(S) < Len(D) THEN Len(S) ELSE Len(D)
        IN  /\ main_token_ids = [i \in 1 .. n |-> S[i]]
            /\ mainPc = "called" =>
                  /\ method = "multi" /\ pc = "nonce"
                  /\ Len(token_ids) = n /\ Len(addresses) = n
                  /\ PipelineJobs = [i \in 1 .. n |-> <<S[i], D[i]>>]
            /\ mainPc = "returned" => method = "none" /\ pc = "idle"

\* holdings {3, 7, 9} and two destinations give [(3, A), (7, B)]
C22_Witness ==
    /\ dist_mode = "1" /\ mainPc = "called"
    /\ main_my_nfts = <<3, 7, 9>>
    /\ main_addresses = <<AddressAt(1), AddressAt(2)>>
    /\ PipelineJobs = << <<3, AddressAt(1)>>, <<7, AddressAt(2)>> >>

\* C23 as stated: under even-split(k) the count per destination is clamped
\* to floor(|S| / |D|) when k * |D| exceeds |S|, and every destination
\* receives exactly that (possibly clamped) k holdings, consecutive in S, in
\* destination order; the plan has at most |S| assignments.
C23_ExactlyK ==
    (dist_mode = "2" /\ mainPc \in {"called", "returned"}
        /\ main_addresses # <<>>) =>
        LET S == main_my_nfts
            D == main_addresses
            k == requested[1]
            c == per_address
        IN  /\ c = (IF k * Len(D) > Len(S) THEN Len(S) \div Len(D) ELSE k)
            /\ \A j \in 1 .. Len(D) : assigned[j] = c
            /\ Len(all_token_ids) = c * Len(D)
            /\ Len(all_token_ids) <= Len(S)

\* C23: under even-split(k) the count per destination is clamped to
\* floor(|S| / |D|) when k * |D| exceeds |S|; every destination receives
\* exactly the (possibly clamped) k holdings when k >= 0 and none when k < 0,
\* consecutive in S, in destination order; the plan has at most |S|
\* assignments and is the one handed to transfer_to_multiple.
C23_EvenSplit ==
    (dist_mode = "2" /\ mainPc \in {"called", "returned"}
        /\ main_addresses # <<>>) =>
        LET S == main_my_nfts
            D == main_addresses
            k == requested[1]
            c == per_address
            g == IF c > 0 THEN c ELSE 0
        IN  /\ c = (IF k * Len(D) > Len(S) THEN Len(S) \div Len(D) ELSE k)
            /\ k >= 0 => g = c
            /\ \A j \in 1 .. Len(D) : assigned[j] = g
            /\ Len(all_token_ids) = g * Len(D)
            /\ Len(all_addresses) = g * Len(D)
            /\ Len(all_token_ids) <= Len(S)
            /\ \A j \in 1 .. Len(D) : \A i \in 1 .. g :
                  /\ all_token_ids[(j - 1) * g + i] = S[(j - 1) * g + i]
                  /\ all_addresses[(j - 1) * g + i] = D[j]
            /\ mainPc = "called" =>
                  /\ method = "multi"
                  /\ token_ids = all_token_ids
                  /\ addresses = all_addresses

\* three holdings, two destinations, three each requested: one each
C23_Witness ==
    /\ dist_mode = "2" /\ mainPc = "called"
    /\ main_my_nfts = <<3, 7, 9>>
    /\ main_addresses = <<AddressAt(1), AddressAt(2)>>
    /\ requested = <<3>>
    /\ per_address = 1
    /\ PipelineJobs = << <<3, AddressAt(1)>>, <<7, AddressAt(2)>> >>

\* C24: under custom(counts), when the counts sum to more than the holdings,
\* main returns with an empty plan: no method of batch is called, so no job
\* is built and no transaction is submitted.
C24_CustomRejected ==
    (dist_mode = "3" /\ Len(distribution) = Len(main_addresses)
        /\ main_addresses # <<>>
        /\ SumSeq(distribution) > Len(main_my_nfts)) =>
        /\ mainPc = "returned"
        /\ all_token_ids = <<>>
        /\ all_addresses = <<>>
        /\ method = "none" /\ pc = "idle"
        /\ caller = "none"
        /\ nonceReads = 0
        /\ \A i \in JobIds : jobs[i] = NoJob

\* two holdings, counts 1 and 3
C24_Witness ==
    /\ dist_mode = "3"
    /\ Len(main_my_nfts) = 2
    /\ distribution = <<1, 3>>
    /\ mainPc = "returned"

\* C27 as stated: every token a transfer method is called with had its owner
\* read from the ledger before.
C27_ReconciledBeforeTransfer ==
    /\ method # "none" => Range(token_ids) \subseteq ownerOfChecked
    /\ caller # "none" => Range(gate_token_ids) \subseteq ownerOfChecked

----------------------------------------------------------------------------
(* Construction: BatchTransfer.__init__ and NetPacketsMinter.__init__ *)

\* len(rpc_urls)
NumRpcUrls == 4

Classes == {"BatchTransfer", "NetPacketsMinter"}

\* env PRIVATE_KEY: not set, the empty string, hexadecimal digits without and
\* with the prefix "0x", or a string that is no key
PrivateKeys == {"unset", "empty", "hex", "0xhex", "malformed"}

\* the class is instantiated in a process whose environment holds `key`;
\* BatchTransfer starts with the loop over rpc_urls, NetPacketsMinter with the
\* environment
CtorStart(cls, key) ==
    /\ ctorPc = "idle"
    /\ ctorClass' = cls
    /\ private_key' = key
    /\ urlIdx' = IF cls = "BatchTransfer" THEN 1 ELSE 0
    /\ ctorPc' = IF cls = "BatchTransfer" THEN "probe" ELSE "key"
    /\ UNCHANGED <<rpc_url, ctorResult, networkCalls>>
    /\ UNCHANGED <<batchVars, resolveVars, gateVars, reportVars, mainVars,
                   minterVars>>

\* for url in rpc_urls has an entry left
InUrlLoop == ctorPc = "probe" /\ urlIdx <= NumRpcUrls

\* test_w3.is_connected() answers False: the next url
ProbeNotConnected ==
    /\ InUrlLoop
    /\ networkCalls' = networkCalls + 1
    /\ urlIdx' = urlIdx + 1
    /\ UNCHANGED <<ctorClass, ctorPc, private_key, rpc_url, ctorResult>>
    /\ UNCHANGED <<batchVars, resolveVars, gateVars, reportVars, mainVars,
                   minterVars>>

\* test_w3.is_connected() answers True and test_w3.eth.block_number raises:
\* except Exception, continue
ProbeBlockNumberRaises ==
    /\ InUrlLoop
    /\ networkCalls' = networkCalls + 2
    /\ urlIdx' = urlIdx + 1
    /\ UNCHANGED <<ctorClass, ctorPc, private_key, rpc_url, ctorResult>>
    /\ UNCHANGED <<batchVars, resolveVars, gateVars, reportVars, mainVars,
                   minterVars>>

\* both requests are answered: self.rpc_url = url, break
ProbeOk ==
    /\ InUrlLoop
    /\ networkCalls' = networkCalls + 2
    /\ rpc_url' = urlIdx
    /\ ctorPc' = "key"
    /\ UNCHANGED <<ctorClass, private_key, urlIdx, ctorResult>>
    /\ UNCHANGED <<batchVars, resolveVars, gateVars, reportVars, mainVars,
                   minterVars>>

\* if not self.rpc_url: self.rpc_url = rpc_urls[0]
ProbeExhausted ==
    /\ ctorPc = "probe"
    /\ ~InUrlLoop
    /\ rpc_url' = 1
    /\ ctorPc' = "key"
    /\ UNCHANGED <<ctorClass, private_key, urlIdx, ctorResult, networkCalls>>
    /\ UNCHANGED <<batchVars, resolveVars, gateVars, reportVars, mainVars,
                   minterVars>>

\* if not private_key
KeyMissing(key) == key \in {"unset", "empty"}

\* if not private_key.startswith("0x"): private_key = "0x" + private_key
Prefixed(key) == IF key = "hex" THEN "0xhex" ELSE key

\* private_key = os.getenv("PRIVATE_KEY"); without it ValueError is raised,
\* else the prefix is added
CtorCheckKey ==
    /\ ctorPc = "key"
    /\ IF KeyMissing(private_key)
       THEN /\ ctorResult' = "ValueError(PRIVATE_KEY not found)"
            /\ ctorPc' = "done"
            /\ UNCHANGED private_key
       ELSE /\ private_key' = Prefixed(private_key)
            /\ ctorPc' = IF ctorClass = "NetPacketsMinter" THEN "env"
                         ELSE "connect"
            /\ UNCHANGED ctorResult
    /\ UNCHANGED <<ctorClass, urlIdx, rpc_url, networkCalls>>
    /\ UNCHANGED <<batchVars, resolveVars, gateVars, reportVars, mainVars,
                   minterVars>>

\* NetPacketsMinter: self.mint_count = int(os.getenv("MINT_COUNT", "5")) and
\* the transfer settings; int raises ValueError for a value that is no number
MinterReadEnv(numeric) ==
    /\ ctorPc = "env"
    /\ IF numeric
       THEN /\ ctorPc' = "connect"
            /\ UNCHANGED ctorResult
       ELSE /\ ctorResult' = "ValueError(MINT_COUNT)"
            /\ ctorPc' = "done"
    /\ UNCHANGED <<ctorClass, private_key, urlIdx, rpc_url, networkCalls>>
    /\ UNCHANGED <<batchVars, resolveVars, gateVars, reportVars, mainVars,
                   minterVars>>

\* self.w3 = Web3(Web3.HTTPProvider(self.rpc_url));
\* if not self.w3.is_connected(): raise ConnectionError
CtorConnect(connected) ==
    /\ ctorPc = "connect"
    /\ networkCalls' = networkCalls + 1
    /\ IF connected
       THEN /\ ctorPc' = "account"
            /\ UNCHANGED ctorResult
       ELSE /\ ctorResult' = "ConnectionError"
            /\ ctorPc' = "done"
    /\ UNCHANGED <<ctorClass, private_key, urlIdx, rpc_url>>
    /\ UNCHANGED <<batchVars, resolveVars, gateVars, reportVars, mainVars,
                   minterVars>>

\* self.account = self.w3.eth.account.from_key(self.private_key) raises for a
\* string that is no key; else the contracts are set up
CtorAccount ==
    /\ ctorPc = "account"
    /\ IF private_key = "0xhex"
       THEN /\ ctorPc' = "balance"
            /\ UNCHANGED ctorResult
       ELSE /\ ctorResult' = "from_key raised"
            /\ ctorPc' = "done"
    /\ UNCHANGED <<ctorClass, private_key, urlIdx, rpc_url, networkCalls>>
    /\ UNCHANGED <<batchVars, resolveVars, gateVars, reportVars, mainVars,
                   minterVars>>

\* the balance line: self.w3.eth.get_balance(self.address) returns or raises
CtorBalance(answered) ==
    /\ ctorPc = "balance"
    /\ networkCalls' = networkCalls + 1
    /\ ctorResult' = IF answered THEN "constructed" ELSE "get_balance raised"
    /\ ctorPc' = "done"
    /\ UNCHANGED <<ctorClass, private_key, urlIdx, rpc_url>>
    /\ UNCHANGED <<batchVars, resolveVars, gateVars, reportVars, mainVars,
                   minterVars>>

InitCtor ==
    /\ BatchIdle
    /\ ReportIdle /\ MainIdle /\ CtorIdle /\ MinterIdle
    /\ ledgerNonce = 0
    /\ ResolveIdle
    /\ GateIdle

NextCtor ==
    \/ \E cls \in Classes, key \in PrivateKeys : CtorStart(cls, key)
    \/ ProbeNotConnected
    \/ ProbeBlockNumberRaises
    \/ ProbeOk
    \/ ProbeExhausted
    \/ CtorCheckKey
    \/ \E numeric \in BOOLEAN : MinterReadEnv(numeric)
    \/ \E connected \in BOOLEAN : CtorConnect(connected)
    \/ CtorAccount
    \/ \E answered \in BOOLEAN : CtorBalance(answered)

SpecCtor == InitCtor /\ [][NextCtor]_vars

----------------------------------------------------------------------------
(* Properties of the construction, checked under SpecCtor *)

\* C25 as stated: when the construction fails for the missing private key, no
\* request was sent to a ledger endpoint before.
C25_KeyCheckedBeforeNetwork ==
    ctorResult = "ValueError(PRIVATE_KEY not found)" => networkCalls = 0

\* NetPacketsMinter alone rejects the missing key before any request
MinterKeyCheckedFirst ==
    (ctorClass = "NetPacketsMinter"
        /\ ctorResult = "ValueError(PRIVATE_KEY not found)") =>
        networkCalls = 0

\* BatchTransfer rejects the missing key only after the loop over rpc_urls
BatchTransferProbesFirst ==
    (ctorClass = "BatchTransfer" /\ ctorPc # "probe") =>
        /\ rpc_url \in 1 .. NumRpcUrls
        /\ networkCalls >= (IF rpc_url = 1 /\ urlIdx > NumRpcUrls
                            THEN NumRpcUrls ELSE 2)

----------------------------------------------------------------------------
(* The tally of rapid_sequential_transfer, checked under Spec *)

\* C26 as stated: a call of rapid_sequential_transfer that has ended has
\* printed the summary with the numbers of successful and failed transfers.
C26_AlwaysReportsTally ==
    (method = "rapid" /\ pc = "done") => tallyReported

\* the summary is printed only by a call that returns whether every
\* transfer succeeded
TallyOnlyAtReturn ==
    tallyReported =>
        /\ method = "rapid" /\ pc = "done"
        /\ result = BoolStr(AllSucceeded)

----------------------------------------------------------------------------
(* The cascade of get_my_nfts(method="auto"), checked under SpecScan *)

----------------------------------------------------------------------------
(* The chunks of the event-log reconstruction, checked under SpecScan *)

----------------------------------------------------------------------------
(* The reconstruction against the ledger, checked under SpecScan *)

\* every chunk of the window was read without an error
AllChunksOk == \A i \in 1 .. Len(chunkLog) : chunkLog[i] = "ok"

\* C30 as stated: when every chunk query succeeds and the account owned
\* nothing before the window, the list the reconstruction returns is the
\* ascending list of the tokens the account owns at current_block.
C30_ReturnsCurrentHoldings ==
    (EventsCompleted /\ AllChunksOk /\ historyOk) =>
        nfts = ListValue(SortedList(ownedNow))

----------------------------------------------------------------------------
(* The single transaction once it is submitted, checked under SpecGate *)

\* send_raw_transaction accepted the batchTransferFrom transaction
SingleSubmitted ==
    /\ caller = "single"
    /\ \E k \in 1 .. Len(gateTxs) : gateTxs[k].kind = "batch"

----------------------------------------------------------------------------
(* The two tallies of rapid_sequential_transfer, checked under Spec *)

\* C35 as stated: when rapid_sequential_transfer prints its summary, the two
\* tallies add up to the number of jobs of the batch.
C35_TalliesCoverBatch ==
    (method = "rapid" /\ tallyReported) =>
        successful + failed = Len(token_ids)

\* the two tallies add up to the number of transactions the ledger accepted
TalliesCoverSent ==
    (method = "rapid" /\ tallyReported) =>
        successful + failed = Len(sent_hashes)

\* ---------------------------------------------------------------------
\* The plan handed to transfer_to_multiple
\* ---------------------------------------------------------------------

\* main has called transfer_to_multiple with a plan
PlanHandedOver == mainPc = "called" /\ method = "multi"

\* C36 as stated: for every distribution policy and every input, the plan
\* handed to transfer_to_multiple has at most |holdings| assignments and no
\* token identifier appears in two of its pairings.
C36_EachHoldingOnce ==
    PlanHandedOver =>
        /\ Len(token_ids) <= Len(main_my_nfts)
        /\ Len(addresses) = Len(token_ids)
        /\ \A i, j \in 1 .. Len(token_ids) :
              i # j => token_ids[i] # token_ids[j]

\* what the planner does keep: the plan is a prefix of the holdings list, so
\* it uses every position of the list at most once and never wraps around
PlanIsPrefixOfHoldings ==
    PlanHandedOver =>
        /\ Len(token_ids) <= Len(main_my_nfts)
        /\ Len(addresses) = Len(token_ids)
        /\ \A i \in 1 .. Len(token_ids) : token_ids[i] = main_my_nfts[i]

\* a token identifier is planned twice only when the holdings hold it twice
TwiceOnlyIfHeldTwice ==
    (PlanHandedOver /\ resolvedBy # "api") =>
        \A i, j \in 1 .. Len(token_ids) :
            i # j => token_ids[i] # token_ids[j]

\* C37 as stated: under custom(counts), whenever the plan is accepted,
\* destination i is assigned exactly counts[i] holdings, for every list of
\* integer counts that can be entered.
C37_ExactCounts ==
    (dist_mode = "3" /\ mainPc \in {"called", "returned"}
        /\ main_addresses # <<>>
        /\ Len(distribution) = Len(main_addresses)
        /\ ~ExceedsHoldings(SumSeq(distribution), Len(main_my_nfts))) =>
        \A j \in 1 .. Len(main_addresses) : assigned[j] = distribution[j]

\* the second half of C37 alone: no accepted plan gives a destination fewer
\* holdings than its requested count
NoDestinationGetsFewer ==
    (dist_mode = "3" /\ mainPc \in {"called", "returned"}
        /\ main_addresses # <<>>
        /\ Len(distribution) = Len(main_addresses)
        /\ ~ExceedsHoldings(SumSeq(distribution), Len(main_my_nfts))) =>
        \A j \in 1 .. Len(main_addresses) :
            distribution[j] > 0 => assigned[j] >= distribution[j]

\* with counts that are all non-negative an accepted plan is exact
ExactWhenNonNegative ==
    (dist_mode = "3" /\ mainPc \in {"called", "returned"}
        /\ main_addresses # <<>>
        /\ Len(distribution) = Len(main_addresses)
        /\ ~ExceedsHoldings(SumSeq(distribution), Len(main_my_nfts))
        /\ \A j \in 1 .. Len(distribution) : distribution[j] >= 0) =>
        \A j \in 1 .. Len(main_addresses) : assigned[j] = distribution[j]

----------------------------------------------------------------------------
\* NetPacketsMinter.run (src/mint_netpackets.py): approve_usdc, the loop of
\* mint_nft and the loop of transfer_nft.  Every transaction takes its nonce
\* from eth.get_transaction_count(address), which counts the transactions of
\* the account that are mined; a transaction whose wait raised stays pending.

\* most mints of one run
MaxMints == 2

\* token ids a Transfer log of a mint receipt can carry
LogIds == {0, 5}

\* what mint_nft returns
IntResult(v) == [type |-> "int", value |-> v]
TrueResult == [type |-> "bool", value |-> 1]
NoneResult == [type |-> "NoneType", value |-> 0]

\* return token_id if token_id else True, with token_id None when no
\* Transfer log of the contract is in the receipt
MintResult(hasLog, id) ==
    IF hasLog /\ id # 0 THEN IntResult(id) ELSE TrueResult

\* if result: a non-zero int and True are true, None is not
Truthy(r) == r.type # "NoneType" /\ r.value # 0

\* isinstance(result, int): bool is a subclass of int
IsInstanceInt(r) == r.type \in {"int", "bool"}

\* variant: any receipt counts as a success
ApprovalOkAny(status) == TRUE

\* receipt['status'] == 1
ApprovalOk(status) == status = 1

MinterTx(kind, nonce) == [kind |-> kind, nonce |-> nonce, state |-> "pending"]

LastMinterTx == minterTxs[Len(minterTxs)]

\* the ledger mines transaction k: the account's count advances and every
\* other pending transaction with the same nonce can no longer be mined
MinedAt(k, status) ==
    [j \in 1 .. Len(minterTxs) |->
        IF j = k
        THEN [minterTxs[j] EXCEPT !.state = IF status = 1 THEN "success"
                                            ELSE "reverted"]
        ELSE IF minterTxs[j].state = "pending"
                /\ minterTxs[j].nonce = minterTxs[k].nonce
        THEN [minterTxs[j] EXCEPT !.state = "dropped"]
        ELSE minterTxs[j]]

\* build_transaction with 'nonce': get_transaction_count(address), then
\* sign_transaction and send_raw_transaction
SubmitTx(kind) ==
    minterTxs' = Append(minterTxs, MinterTx(kind, minedCount))

\* wait_for_transaction_receipt returns the receipt of the transaction sent
ReceiptArrives(status) ==
    /\ LastMinterTx.state = "pending"
    /\ LastMinterTx.nonce = minedCount
    /\ minterTxs' = MinedAt(Len(minterTxs), status)
    /\ minedCount' = minedCount + 1

runConfig == <<mint_count, transfer_enabled, transfer_addresses>>
mintLoop == <<mint_i, successful_mints, failed_mints, minted_token_ids>>
transferLoop == <<transfer_idx, successful_transfers, failed_transfers,
                  transferCalls>>
minterLedger == <<minedCount, minterTxs>>

\* the transfer loop reaches index at: it breaks without an address for it
\* and ends after the last token; else it calls transfer_nft
TransferLoopAt(at, tokens) ==
    /\ transfer_idx' = at
    /\ IF at >= Len(tokens) \/ at >= Len(transfer_addresses)
       THEN /\ runPc' = "returned"
            /\ UNCHANGED transferCalls
       ELSE /\ runPc' = "transfer_build"
            /\ transferCalls' = Append(transferCalls, tokens[at + 1])

\* after the minting loop: the summary, then the transfers if enabled
AfterMinting(tokens) ==
    IF transfer_enabled /\ transfer_addresses # <<>> /\ tokens # <<>>
    THEN /\ TransferLoopAt(0, tokens)
         /\ UNCHANGED <<successful_transfers, failed_transfers>>
    ELSE /\ runPc' = "returned"
         /\ UNCHANGED transferLoop

\* the minting loop reaches i
MintLoopAt(i, tokens) ==
    IF i <= mint_count
    THEN /\ mint_i' = i
         /\ runPc' = "mint_build"
         /\ UNCHANGED transferLoop
    ELSE /\ UNCHANGED mint_i
         /\ AfterMinting(tokens)

\* run takes the result of mint_nft(i) and goes on with the loop
MintReturns(r) ==
    /\ IF Truthy(r)
       THEN /\ successful_mints' = successful_mints + 1
            /\ minted_token_ids' =
                   IF IsInstanceInt(r) THEN Append(minted_token_ids, r)
                   ELSE minted_token_ids
            /\ UNCHANGED failed_mints
       ELSE /\ failed_mints' = failed_mints + 1
            /\ UNCHANGED <<successful_mints, minted_token_ids>>
    /\ MintLoopAt(mint_i + 1, minted_token_ids')

\* run takes the result of approve_usdc
ApproveUsdcReturns(ok) ==
    /\ usdc_approved' = IF ok THEN "True" ELSE "False"
    /\ IF ok
       THEN /\ MintLoopAt(1, <<>>)
            /\ UNCHANGED <<successful_mints, failed_mints, minted_token_ids>>
       ELSE /\ runPc' = "returned"
            /\ UNCHANGED <<mintLoop, transferLoop>>

\* run takes the result of transfer_nft and goes on with the loop
TransferReturns(success) ==
    /\ IF success
       THEN /\ successful_transfers' = successful_transfers + 1
            /\ UNCHANGED failed_transfers
       ELSE /\ failed_transfers' = failed_transfers + 1
            /\ UNCHANGED successful_transfers
    /\ TransferLoopAt(transfer_idx + 1, minted_token_ids)

minterOthers == <<batchVars, resolveVars, gateVars, reportVars, mainVars,
                  ctorVars>>

\* minter.run() of a constructed minter
RunStart(n, enabled, addrs) ==
    /\ runPc = "idle"
    /\ runPc' = "balance"
    /\ mint_count' = n
    /\ transfer_enabled' = enabled
    /\ transfer_addresses' = addrs
    /\ UNCHANGED <<usdc_approved, mintLoop, transferLoop, minterLedger,
                   allowanceCovers, receiptIds>>
    /\ UNCHANGED minterOthers

\* check_usdc_balance, and the question asked when it returns False
CheckBalance(enough, answer_y) ==
    /\ runPc = "balance"
    /\ runPc' = IF enough \/ answer_y THEN "allowance" ELSE "returned"
    /\ UNCHANGED <<runConfig, usdc_approved, mintLoop, transferLoop,
                   minterLedger, allowanceCovers, receiptIds>>
    /\ UNCHANGED minterOthers

\* balanceOf(...).call() or allowance(...).call() raises: nothing in run
\* catches it
RunCallRaises ==
    /\ runPc \in {"balance", "allowance"}
    /\ runPc' = "raised"
    /\ UNCHANGED <<runConfig, usdc_approved, mintLoop, transferLoop,
                   minterLedger, allowanceCovers, receiptIds>>
    /\ UNCHANGED minterOthers

\* approve_usdc: current_allowance >= amount_wei returns True at once
ApproveAllowance(covers) ==
    /\ runPc = "allowance"
    /\ allowanceCovers' = IF covers THEN "yes" ELSE "no"
    /\ IF covers
       THEN ApproveUsdcReturns(TRUE)
       ELSE /\ runPc' = "approve_build"
            /\ UNCHANGED <<usdc_approved, mintLoop, transferLoop>>
    /\ UNCHANGED <<runConfig, minterLedger, receiptIds>>
    /\ UNCHANGED minterOthers

ApproveSubmit ==
    /\ runPc = "approve_build"
    /\ SubmitTx("approve")
    /\ runPc' = "approve_wait"
    /\ UNCHANGED <<runConfig, usdc_approved, mintLoop, transferLoop,
                   minedCount, allowanceCovers, receiptIds>>
    /\ UNCHANGED minterOthers

\* build_transaction, get_block, sign or send raises: return False
ApproveRaises ==
    /\ runPc = "approve_build"
    /\ ApproveUsdcReturns(FALSE)
    /\ UNCHANGED <<runConfig, minterLedger, allowanceCovers, receiptIds>>
    /\ UNCHANGED minterOthers

ApproveReceipt(status) ==
    /\ runPc = "approve_wait"
    /\ ReceiptArrives(status)
    /\ ApproveUsdcReturns(ApprovalOk(status))
    /\ UNCHANGED <<runConfig, allowanceCovers, receiptIds>>
    /\ UNCHANGED minterOthers

\* wait_for_transaction_receipt raises (120 s without a receipt): return
\* False, the transaction stays pending
ApproveWaitRaises ==
    /\ runPc = "approve_wait"
    /\ ApproveUsdcReturns(FALSE)
    /\ UNCHANGED <<runConfig, minterLedger, allowanceCovers, receiptIds>>
    /\ UNCHANGED minterOthers

MintSubmit ==
    /\ runPc = "mint_build"
    /\ SubmitTx("mint")
    /\ runPc' = "mint_wait"
    /\ UNCHANGED <<runConfig, usdc_approved, mintLoop, transferLoop,
                   minedCount, allowanceCovers, receiptIds>>
    /\ UNCHANGED minterOthers

\* build_transaction, get_block, sign or send raises: return None
MintRaises ==
    /\ runPc = "mint_build"
    /\ MintReturns(NoneResult)
    /\ UNCHANGED <<runConfig, usdc_approved, minterLedger, allowanceCovers,
                   receiptIds>>
    /\ UNCHANGED minterOthers

\* the receipt of the mint: status 1 returns the token id of the Transfer
\* log, or True; another status returns None
MintReceipt(status, hasLog, id) ==
    /\ runPc = "mint_wait"
    /\ ReceiptArrives(status)
    /\ IF status = 1
       THEN /\ receiptIds' = IF hasLog THEN receiptIds \cup {id}
                             ELSE receiptIds
            /\ MintReturns(MintResult(hasLog, id))
       ELSE /\ UNCHANGED receiptIds
            /\ MintReturns(NoneResult)
    /\ UNCHANGED <<runConfig, usdc_approved, allowanceCovers>>
    /\ UNCHANGED minterOthers

\* wait_for_transaction_receipt raises: return None, the transaction stays
\* pending
MintWaitRaises ==
    /\ runPc = "mint_wait"
    /\ MintReturns(NoneResult)
    /\ UNCHANGED <<runConfig, usdc_approved, minterLedger, allowanceCovers,
                   receiptIds>>
    /\ UNCHANGED minterOthers

TransferSubmit ==
    /\ runPc = "transfer_build"
    /\ SubmitTx("transfer")
    /\ runPc' = "transfer_wait"
    /\ UNCHANGED <<runConfig, usdc_approved, mintLoop, transferLoop,
                   minedCount, allowanceCovers, receiptIds>>
    /\ UNCHANGED minterOthers

\* to_checksum_address, build_transaction, get_block, sign or send raises
TransferRaises ==
    /\ runPc = "transfer_build"
    /\ TransferReturns(FALSE)
    /\ UNCHANGED <<runConfig, usdc_approved, mintLoop, minterLedger,
                   allowanceCovers, receiptIds>>
    /\ UNCHANGED minterOthers

TransferReceipt(status) ==
    /\ runPc = "transfer_wait"
    /\ ReceiptArrives(status)
    /\ TransferReturns(status = 1)
    /\ UNCHANGED <<runConfig, usdc_approved, mintLoop, allowanceCovers,
                   receiptIds>>
    /\ UNCHANGED minterOthers

TransferWaitRaises ==
    /\ runPc = "transfer_wait"
    /\ TransferReturns(FALSE)
    /\ UNCHANGED <<runConfig, usdc_approved, mintLoop, minterLedger,
                   allowanceCovers, receiptIds>>
    /\ UNCHANGED minterOthers

\* the ledger mines a transaction the program no longer waits for
MineTimedOut(k, status) ==
    /\ k \in 1 .. Len(minterTxs)
    /\ (k < Len(minterTxs)
          \/ runPc \notin {"approve_wait", "mint_wait", "transfer_wait"})
    /\ minterTxs[k].state = "pending"
    /\ minterTxs[k].nonce = minedCount
    /\ minterTxs' = MinedAt(k, status)
    /\ minedCount' = minedCount + 1
    /\ UNCHANGED <<runPc, runConfig, usdc_approved, mintLoop, transferLoop,
                   allowanceCovers, receiptIds>>
    /\ UNCHANGED minterOthers

InitMint ==
    /\ BatchIdle
    /\ ledgerNonce = 0
    /\ ResolveIdle
    /\ GateIdle
    /\ ReportIdle /\ MainIdle /\ CtorIdle /\ MinterIdle

NextMint ==
    \/ \E n \in 0 .. MaxMints, enabled \in BOOLEAN,
          addrs \in AddressLists(MaxMints) : RunStart(n, enabled, addrs)
    \/ \E enough \in BOOLEAN, answer_y \in BOOLEAN :
          CheckBalance(enough, answer_y)
    \/ RunCallRaises
    \/ \E covers \in BOOLEAN : ApproveAllowance(covers)
    \/ ApproveSubmit
    \/ ApproveRaises
    \/ \E status \in {0, 1} : ApproveReceipt(status)
    \/ ApproveWaitRaises
    \/ MintSubmit
    \/ MintRaises
    \/ \E status \in {0, 1}, hasLog \in BOOLEAN, id \in LogIds :
          MintReceipt(status, hasLog, id)
    \/ MintWaitRaises
    \/ TransferSubmit
    \/ TransferRaises
    \/ \E status \in {0, 1} : TransferReceipt(status)
    \/ TransferWaitRaises
    \/ \E k \in 1 .. MaxMints * 2 + 1, status \in {0, 1} :
          MineTimedOut(k, status)

SpecMint == InitMint /\ [][NextMint]_vars

\* ---------------------------------------------------------------------
\* Properties of NetPacketsMinter.run
\* ---------------------------------------------------------------------

\* r is a token id that was read from the Transfer log of a mint receipt
ReadFromReceipt(r) == r.type = "int" /\ r.value \in receiptIds

\* C31 as stated: every element of minted_token_ids is a token id extracted
\* from the Transfer log of a successful mint receipt (a mint that returned
\* True adds nothing), so transfer_nft is never called for a token id that
\* was not read from a mint receipt.
C31_OnlyReceiptIds ==
    /\ \A k \in 1 .. Len(minted_token_ids) :
          ReadFromReceipt(minted_token_ids[k])
    /\ \A k \in 1 .. Len(transferCalls) : ReadFromReceipt(transferCalls[k])

\* what run does keep: an element that is not True was read from a receipt,
\* and transfer_nft is only called with elements of minted_token_ids, in
\* their order
OnlyTrueIsUnread ==
    /\ \A k \in 1 .. Len(minted_token_ids) :
          \/ ReadFromReceipt(minted_token_ids[k])
          \/ minted_token_ids[k] = TrueResult
    /\ Len(transferCalls) <= Len(minted_token_ids)
    /\ \A k \in 1 .. Len(transferCalls) :
          transferCalls[k] = minted_token_ids[k]

MintSubmitted == \E k \in 1 .. Len(minterTxs) : minterTxs[k].kind = "mint"

ApproveTxs == {k \in 1 .. Len(minterTxs) : minterTxs[k].kind = "approve"}

\* C32: no mint transaction is submitted unless approve_usdc returned True
\* first; approve_usdc returns True without submitting a transaction when
\* the allowance covers the amount, and otherwise returns True only if its
\* approval transaction got a success receipt.
C32_MintOnlyAfterApproval ==
    /\ MintSubmitted => usdc_approved = "True"
    /\ (runPc \in {"mint_build", "mint_wait", "transfer_build",
                   "transfer_wait"}) => usdc_approved = "True"
    /\ (usdc_approved = "True" /\ allowanceCovers = "yes") => ApproveTxs = {}
    /\ (usdc_approved = "True" /\ allowanceCovers # "yes") =>
          /\ allowanceCovers = "no"
          /\ \E k \in ApproveTxs : minterTxs[k].state = "success"
    /\ Cardinality(ApproveTxs) <= 1

\* a mint is submitted after an approval transaction that succeeded
C32_Witness ==
    /\ MintSubmitted
    /\ allowanceCovers = "no"
    /\ usdc_approved = "True"
    /\ \E k \in ApproveTxs : minterTxs[k].state = "success"

\* a mint is submitted with no approval transaction: the allowance covered
AllowanceCoveredMint ==
    /\ MintSubmitted
    /\ allowanceCovers = "yes"
    /\ ApproveTxs = {}

\* C33 as stated: across one run, no two submitted transactions carry the
\* same nonce, also when a wait raised while the transaction submitted
\* before is still pending.
C33_NoncesDistinct ==
    \A a, b \in 1 .. Len(minterTxs) :
        a # b => minterTxs[a].nonce # minterTxs[b].nonce

\* what the ledger keeps: of the transactions with one nonce at most one is
\* mined
OneMinedPerNonce ==
    \A a, b \in 1 .. Len(minterTxs) :
        (a # b /\ minterTxs[a].nonce = minterTxs[b].nonce) =>
            ~(minterTxs[a].state \in {"success", "reverted"}
                /\ minterTxs[b].state \in {"success", "reverted"})

\* a nonce is taken twice only when the transaction submitted before was not
\* mined at that moment: without a wait that raised, nonces are distinct
NonceReuseNeedsUnmined ==
    (\A k \in 1 .. Len(minterTxs) :
        minterTxs[k].state \in {"success", "reverted"}) =>
        \A a, b \in 1 .. Len(minterTxs) :
            a # b => minterTxs[a].nonce # minterTxs[b].nonce

====
